---- MODULE Spec2Model ----
(***************************************************************************)
(* DarkAGI: the agent orchestration engine.                                *)
(*                                                                         *)
(*  - performFileActions (src/App.tsx): the sequential action dispatcher   *)
(*    over the virtual file store;                                         *)
(*  - handleSendMessage (src/App.tsx): the multi-turn loop;                *)
(*  - runAgent (src/services/geminiService.ts): prompt construction and    *)
(*    the retry loop around the model call.                                *)
(*                                                                         *)
(* An optional JavaScript value is a sequence: << >> is undefined and      *)
(* <<v>> is the value v.  A string is a sequence of characters, a path a   *)
(* sequence of its '/'-separated segments.  Timestamps (Date.now()) and    *)
(* message ids are left out: nothing in the modelled code reads them back  *)
(* except to find the entry it has just appended.                          *)
(***************************************************************************)
EXTENDS Integers, Sequences, FiniteSets, TLC

VARIABLES
  \* ---- performFileActions, one call ----
  dPc,                     \* "idle" | "loop" | "returned"
  currentFiles,            \* the snapshot handed to the call
  dActions,                \* the actions of the batch consumed so far
  fileMap,                 \* Map<path, VirtualFile>, in insertion order
  observations,            \* string[]
  observationAttachments,  \* VirtualFile[]
  processedSignatures,     \* Set<string>
  dTrace,                  \* per action: what the iteration did (history)
  \* ---- handleSendMessage, one send sequence ----
  pc,                      \* "idle" | "awaitModel" | "dispatch" | "sleep" | "done"
  files,                   \* React state: files
  messages,                \* React state: messages
  isProcessing,            \* React state: isProcessing
  abortControllerRef,      \* abortControllerRef.current: "null" | "controller"
  aborted,                 \* controller.signal.aborted
  currentFilesState,       \* let currentFilesState
  conversationHistory,     \* const conversationHistory
  turn,                    \* let turn
  actionRetryMap,          \* Map<string, number>
  prompts,                 \* per runAgent call: what the prompt held (history)
  endCause,                \* why the sequence ended (history)
  dispatches,              \* the turns that called performFileActions (history)
  varied,                  \* number of freely chosen model responses so far
  \* ---- runAgent, the retry loop of one call ----
  rPc,                     \* "idle" | "top" | "inCall" | "returned" | "thrown"
  attempt,                 \* let attempt
  lastError,               \* let lastError
  contents,                \* corrective messages pushed onto contents
  signalAborted,           \* signal.aborted
  rCalls,                  \* generateContentStream calls issued (history)
  rOutcomes,               \* outcome of each attempt (history)
  rResult,                 \* what runAgent returned or threw
  rJson,                   \* the value runAgent resolved with, if it did
  rTexts,                  \* the full text each attempt streamed (history)
  \* ---- one stream of chunks and the partial values shown from it ----
  sPc,                     \* "off" | "stream"
  streamText,              \* let fullText of the stream
  thoughts,                \* per chunk: extractJSONString(cleanText, 'thought')
  plans,                   \* per chunk: extractJSONArray(cleanText, 'plan')
  \* ---- several send sequences of one conversation ----
  seqs                     \* per handleSendMessage call: its controller and locals

dispatchVars == <<dPc, currentFiles, dActions, fileMap, observations,
                  observationAttachments, processedSignatures, dTrace>>
sendVars == <<pc, files, messages, isProcessing, abortControllerRef, aborted,
              currentFilesState, conversationHistory, turn, actionRetryMap,
              prompts, endCause, dispatches, varied>>
retryVars == <<rPc, attempt, lastError, contents, signalAborted, rCalls,
               rOutcomes, rResult, rJson, rTexts>>
streamVars == <<sPc, streamText, thoughts, plans>>
overlapVars == <<seqs>>
vars == <<dispatchVars, sendVars, retryVars, streamVars, overlapVars>>

----------------------------------------------------------------------------
(* Bounds of the model *)

\* Longest batch handed to one stepwise performFileActions call.
MaxBatch == 2
\* Model responses chosen freely in one send; after them the model repeats
\* its last response or finalises.
MaxVaried == 2

----------------------------------------------------------------------------
(* Optional values, strings, paths *)

Undef == << >>
Some(v) == <<v>>
IsDef(o) == Len(o) > 0
Val(o) == o[1]

\* JavaScript truthiness of an optional string: defined and not empty.
Truthy(o) == IsDef(o) /\ Len(Val(o)) > 0

\* Bytes of one character under TextEncoder (UTF-8).
Utf8Width(c) == IF c = "U+00E9" THEN 2 ELSE 1

RECURSIVE Utf8Len(_)
\* new TextEncoder().encode(s).length
Utf8Len(s) == IF Len(s) = 0 THEN 0 ELSE Utf8Width(Head(s)) + Utf8Len(Tail(s))

StrEmpty == << >>
StrHi == <<"h", "i">>
StrBang == <<"!">>
StrAcute == <<"U+00E9">>

PathTxt == <<"a", "b.txt">>
PathPng == <<"c.png">>
PathMd == <<"n.md">>
\* The paths of the model in the order of Array.prototype.sort().
PathList == <<PathTxt, PathPng, PathMd>>
Paths == {PathList[i] : i \in 1..Len(PathList)}
PathRank(p) == CHOOSE i \in 1..Len(PathList) : PathList[i] = p

\* fileName.split('.').pop() on the model's segments.
ExtOf(seg) ==
  CASE seg = "b.txt" -> "txt"
    [] seg = "c.png" -> "png"
    [] seg = "n.md" -> "md"
    [] OTHER -> seg

\* path.split('/').pop() || path
BaseName(p) == IF p[Len(p)] # "" THEN <<p[Len(p)]>> ELSE p

TextExts == {"txt", "md", "json", "js", "ts", "tsx", "jsx", "html", "css",
             "py", "c", "cpp", "h", "java", "xml", "yml", "yaml", "ini",
             "env", "csv", "log", "sh", "bat"}

isTextFile(name) == ExtOf(name[Len(name)]) \in TextExts

getMimeType(fileName) ==
  LET ext == ExtOf(fileName[Len(fileName)])
  IN CASE ext = "png" -> "image/png"
       [] ext \in {"jpg", "jpeg"} -> "image/jpeg"
       [] ext = "webp" -> "image/webp"
       [] ext = "pdf" -> "application/pdf"
       [] ext = "mp3" -> "audio/mp3"
       [] ext = "wav" -> "audio/wav"
       [] ext = "ogg" -> "audio/ogg"
       [] ext = "mp4" -> "video/mp4"
       [] ext = "webm" -> "video/webm"
       [] ext = "mov" -> "video/mov"
       [] ext = "avi" -> "video/avi"
       [] ext = "mpeg" -> "video/mpeg"
       [] ext = "mpg" -> "video/mpg"
       [] ext = "3gp" -> "video/3gpp"
       [] ext = "wmv" -> "video/wmv"
       [] ext = "flv" -> "video/x-flv"
       [] ext = "json" -> "application/json"
       [] ext = "txt" -> "text/plain"
       [] ext = "js" -> "text/javascript"
       [] ext \in {"ts", "tsx"} -> "text/plain"
       [] ext = "html" -> "text/html"
       [] ext = "css" -> "text/css"
       [] ext = "csv" -> "text/csv"
       [] OTHER -> "application/octet-stream"

----------------------------------------------------------------------------
(* The virtual file store *)

\* Size thresholds of the dispatcher and of readFileAsText.
ReadInlineLimit == 10000
ReadAttachLimit == 20 * 1024 * 1024
AppendLimit == 5 * 1024 * 1024
MAX_TEXT_READ_SIZE == 5 * 1024 * 1024

\* A VirtualFile.  content.kind is "text" (a string), "bytes" (a Uint8Array,
\* held as the text it decodes to) or "file" (an unread File handle, with the
\* text reading it would give).
VFile(path, content, size, type, mime) ==
  [path |-> path, name |-> BaseName(path), content |-> content,
   size |-> size, type |-> type, mimeType |-> mime]

TextContent(s) == [kind |-> "text", text |-> s]
BytesContent(s) == [kind |-> "bytes", text |-> s]
FileHandle(s) == [kind |-> "file", text |-> s]

\* Map<string, VirtualFile> as the sequence of its [k, v] entries in
\* insertion order.
MapHas(m, k) == \E i \in 1..Len(m) : m[i].k = k
MapIdx(m, k) == CHOOSE i \in 1..Len(m) : m[i].k = k
MapGet(m, k) == m[MapIdx(m, k)].v
\* A set that leaves an existing key as it is (the mutant of C25).
MapSetKeepsFirst(m, k, v) ==
  IF MapHas(m, k) THEN m ELSE Append(m, [k |-> k, v |-> v])

MapSet(m, k, v) ==
  IF MapHas(m, k) THEN [m EXCEPT ![MapIdx(m, k)] = [k |-> k, v |-> v]]
  ELSE Append(m, [k |-> k, v |-> v])
MapDelete(m, k) == SelectSeq(m, LAMBDA e : e.k # k)
MapKeys(m) == {m[i].k : i \in 1..Len(m)}
\* Array.from(map.values())
MapValues(m) == [i \in 1..Len(m) |-> m[i].v]

RECURSIVE MapFromFiles(_)
\* new Map(fs.map(f => [f.path, f]))
MapFromFiles(fs) ==
  IF Len(fs) = 0 THEN << >>
  ELSE LET f == fs[Len(fs)]
       IN MapSet(MapFromFiles(SubSeq(fs, 1, Len(fs) - 1)), f.path, f)

\* files.some(f => f.path === p)
FilesHave(fs, p) == \E i \in 1..Len(fs) : fs[i].path = p

\* resolveFileContent: the text a file's content resolves (and decodes) to.
\* A File handle of a text file above MAX_TEXT_READ_SIZE is read truncated.
resolveFileContent(vFile) ==
  IF vFile.content.kind = "file" /\ isTextFile(vFile.name)
     /\ vFile.size > MAX_TEXT_READ_SIZE
  THEN vFile.content.text \o <<"[truncated]">>
  ELSE vFile.content.text

\* Whether resolving the content awaits a FileReader, which can fail.
ResolveCanFail(vFile) == vFile.content.kind = "file"

----------------------------------------------------------------------------
(* Actions *)

ActionTypes == {"read", "write", "append", "move", "delete", "mkdir",
                "generate_image", "edit_image", "compose_image",
                "calculate_math", "generate_video", "trim_video",
                "run_script", "google_search"}

Action(type, path, content, source_path, source_paths, start_time, end_time) ==
  [type |-> type, path |-> path, content |-> content,
   source_path |-> source_path, source_paths |-> source_paths,
   start_time |-> start_time, end_time |-> end_time]

\* An action with only type, path and content.
Act(type, path, content) == Action(type, path, content, Undef, Undef, Undef, Undef)
\* An action with a source_path.
ActSrc(type, path, content, src) ==
  Action(type, path, content, Some(src), Undef, Undef, Undef)

RECURSIVE InsertSorted(_, _)
InsertSorted(s, p) ==
  IF Len(s) = 0 THEN <<p>>
  ELSE IF PathRank(p) <= PathRank(Head(s)) THEN <<p>> \o s
  ELSE <<Head(s)>> \o InsertSorted(Tail(s), p)

RECURSIVE SortPaths(_)
\* [...source_paths].sort()
SortPaths(s) == IF Len(s) = 0 THEN << >> ELSE InsertSorted(SortPaths(Tail(s)), Head(s))

\* The JSON.stringify signature of an action: two signatures are equal
\* exactly when the seven stringified fields are.
Signature(a) ==
  [type |-> a.type, path |-> a.path, content |-> a.content,
   source_path |-> a.source_path,
   source_paths |-> IF IsDef(a.source_paths) THEN Some(SortPaths(Val(a.source_paths)))
                    ELSE Undef,
   start_time |-> a.start_time, end_time |-> a.end_time]

\* An observation string, as its template and the values interpolated in it.
Obs(tmpl, type, path, source, text) ==
  [tmpl |-> tmpl, type |-> type, path |-> path, source |-> source, text |-> text]

ErrFileReader == <<"FileReader error">>
ErrGeneration == <<"No image generated in response.">>
ErrSearch == <<"search request failed">>
ErrMath == <<"Undefined symbol">>
ErrScript == <<"script threw">>

\* What the environment does during one action: every awaited collaborator
\* succeeds ("ok") or the first one awaited fails ("fail").
Outcomes == {"ok", "fail"}

----------------------------------------------------------------------------
(* performFileActions: one iteration of the for loop *)

\* Locals whose set of signatures starts with a write already in it (the
\* mutant of C26).
DispatchStateSeeded(fs) ==
  [fileMap |-> MapFromFiles(fs), observations |-> << >>,
   observationAttachments |-> << >>,
   processedSignatures |-> {Signature(Act("write", PathTxt, Some(StrHi)))},
   log |-> << >>, nmut |-> 0, snapshot |-> fs]

\* The locals of a performFileActions call.  log is history: per iteration,
\* whether it was skipped, whether the switch threw, how many observations
\* it pushed and how many Map.set/Map.delete calls it made.  snapshot is
\* the caller's array currentFiles with the objects it holds, as the heap
\* shows them: the map is built over the same objects (line 29), so an
\* assignment to a field of such an object would show here.
DispatchState(fs) ==
  [fileMap |-> MapFromFiles(fs), observations |-> << >>,
   observationAttachments |-> << >>, processedSignatures |-> {},
   log |-> << >>, nmut |-> 0, snapshot |-> fs]

Push(st, ob) == [st EXCEPT !.observations = Append(@, ob)]
SetFile(st, k, f) == [st EXCEPT !.fileMap = MapSet(@, k, f), !.nmut = @ + 1]
DelFile(st, k) == [st EXCEPT !.fileMap = MapDelete(@, k), !.nmut = @ + 1]

Completed(st) == [threw |-> FALSE, err |-> << >>, st |-> st]
Thrown(st, err) == [threw |-> TRUE, err |-> err, st |-> st]

GeneratedImage == <<"0x89", "P", "N", "G">>

IsVideo(f) ==
  IsDef(f.mimeType)
  /\ Val(f.mimeType) \in {"video/mp4", "video/webm", "video/mov", "video/avi",
                          "video/mpeg", "video/mpg", "video/3gpp",
                          "video/wmv", "video/x-flv"}

\* CaseRead without the ceiling on what it attaches (the mutant of C31).
CaseReadNoCeiling(st, a, o) ==
  IF ~MapHas(st.fileMap, a.path)
  THEN Completed(Push(st, Obs("Action READ '{path}' failed: Not found.",
                              "", Some(a.path), Undef, Undef)))
  ELSE
    LET fileToRead == MapGet(st.fileMap, a.path) IN
    IF isTextFile(fileToRead.name) /\ fileToRead.size <= ReadInlineLimit
    THEN IF ResolveCanFail(fileToRead) /\ o = "fail"
         THEN Thrown(st, ErrFileReader)
         ELSE Completed(Push(st, Obs("Action READ '{path}' success. Content:\n{text}",
                                     "", Some(a.path), Undef,
                                     Some(resolveFileContent(fileToRead)))))
    ELSE
      LET st1 == [st EXCEPT !.observationAttachments = Append(@, fileToRead)]
      IN Completed(Push(st1, Obs("Action READ '{path}' success. Content attached for analysis.{text}",
                                 "", Some(a.path), Undef, Undef)))

CaseRead(st, a, o) ==
  IF ~MapHas(st.fileMap, a.path)
  THEN Completed(Push(st, Obs("Action READ '{path}' failed: Not found.",
                              "", Some(a.path), Undef, Undef)))
  ELSE
    LET fileToRead == MapGet(st.fileMap, a.path) IN
    IF isTextFile(fileToRead.name) /\ fileToRead.size <= ReadInlineLimit
    THEN IF ResolveCanFail(fileToRead) /\ o = "fail"
         THEN Thrown(st, ErrFileReader)
         ELSE Completed(Push(st, Obs("Action READ '{path}' success. Content:\n{text}",
                                     "", Some(a.path), Undef,
                                     Some(resolveFileContent(fileToRead)))))
    ELSE IF fileToRead.size > ReadAttachLimit
    THEN Completed(Push(st, Obs("Action READ '{path}' failed: File is too large.",
                                "", Some(a.path), Undef, Undef)))
    ELSE
      LET metaInfo ==
            IF IsVideo(fileToRead) /\ fileToRead.content.kind \in {"file", "bytes"}
               /\ fileToRead.size > 0 /\ o = "ok"
            THEN Some(<<"[Metadata]">>) ELSE Undef
          st1 == [st EXCEPT !.observationAttachments = Append(@, fileToRead)]
      IN Completed(Push(st1, Obs("Action READ '{path}' success. Content attached for analysis.{text}",
                                 "", Some(a.path), Undef, metaInfo)))

\* CaseWrite removing the entry when the action has no content (the mutant
\* of C24).
CaseWriteUndefinedRemoves(st, a, o) ==
  IF IsDef(a.content)
  THEN Completed(Push(
         SetFile(st, a.path,
                 VFile(a.path, TextContent(Val(a.content)), Utf8Len(Val(a.content)),
                       "file", Some(getMimeType(a.path)))),
         Obs("Action WRITE '{path}' success.", "", Some(a.path), Undef, Undef)))
  ELSE Completed(DelFile(st, a.path))

CaseWrite(st, a, o) ==
  IF IsDef(a.content)
  THEN Completed(Push(
         SetFile(st, a.path,
                 VFile(a.path, TextContent(Val(a.content)), Utf8Len(Val(a.content)),
                       "file", Some(getMimeType(a.path)))),
         Obs("Action WRITE '{path}' success.", "", Some(a.path), Undef, Undef)))
  ELSE Completed(st)

\* CaseAppend assigning to the fields of the existing object instead of
\* setting a copy (the mutant of C33): the object is the one the caller's
\* array holds, if the map still has it from there.
CaseAppendInPlace(st, a, o) ==
  IF MapHas(st.fileMap, a.path)
  THEN LET existing == MapGet(st.fileMap, a.path)
           newContent == resolveFileContent(existing)
                           \o (IF Truthy(a.content) THEN Val(a.content) ELSE << >>)
           changed == [existing EXCEPT !.content = TextContent(newContent),
                                       !.size = Utf8Len(newContent)]
           st1 == [st EXCEPT !.snapshot =
                     [i \in 1..Len(@) |-> IF @[i] = existing THEN changed ELSE @[i]]]
       IN Completed(Push(SetFile(st1, a.path, changed),
            Obs("Action APPEND '{path}' success.", "", Some(a.path), Undef, Undef)))
  ELSE Completed(st)

\* CaseAppend with the size left as it was (the mutant of C8).
CaseAppendStaleSize(st, a, o) ==
  IF MapHas(st.fileMap, a.path)
  THEN LET existing == MapGet(st.fileMap, a.path)
           newContent == resolveFileContent(existing)
                           \o (IF Truthy(a.content) THEN Val(a.content) ELSE << >>)
       IN Completed(Push(
            SetFile(st, a.path, [existing EXCEPT !.content = TextContent(newContent)]),
            Obs("Action APPEND '{path}' success.", "", Some(a.path), Undef, Undef)))
  ELSE Completed(st)

CaseAppend(st, a, o) ==
  IF MapHas(st.fileMap, a.path)
  THEN
    LET existing == MapGet(st.fileMap, a.path) IN
    IF existing.size > AppendLimit
    THEN Completed(Push(st, Obs("Action APPEND failed: File '{path}' is too large.",
                                "", Some(a.path), Undef, Undef)))
    ELSE IF ResolveCanFail(existing) /\ o = "fail"
    THEN Thrown(st, ErrFileReader)
    ELSE
      LET prevStr == resolveFileContent(existing)
          newContent == prevStr \o (IF Truthy(a.content) THEN Val(a.content) ELSE << >>)
      IN Completed(Push(
           SetFile(st, a.path,
                   [existing EXCEPT !.content = TextContent(newContent),
                                    !.size = Utf8Len(newContent)]),
           Obs("Action APPEND '{path}' success.", "", Some(a.path), Undef, Undef)))
  ELSE IF Truthy(a.content)
  THEN Completed(Push(
         SetFile(st, a.path,
                 VFile(a.path, TextContent(Val(a.content)), Utf8Len(Val(a.content)),
                       "file", Some("text/plain"))),
         Obs("Action APPEND '{path}' (new) success.", "", Some(a.path), Undef, Undef)))
  ELSE Completed(st)

CaseDelete(st, a, o) ==
  IF MapHas(st.fileMap, a.path)
  THEN Completed(Push(DelFile(st, a.path),
                      Obs("Action DELETE '{path}' success.", "", Some(a.path), Undef, Undef)))
  ELSE Completed(Push(st, Obs("Action DELETE '{path}' failed: Not found.",
                              "", Some(a.path), Undef, Undef)))

\* JavaScript truthiness of an optional path: defined and not the empty string.
TruthyPath(o) == IsDef(o) /\ Val(o) # <<"">>

\* CaseMove leaving the entry at the source path in place (the mutant of
\* C32).
CaseMoveKeepsSource(st, a, o) ==
  IF TruthyPath(a.source_path) /\ MapHas(st.fileMap, Val(a.source_path))
  THEN
    LET source == MapGet(st.fileMap, Val(a.source_path))
        st2 == SetFile(st, a.path,
                       [source EXCEPT !.path = a.path, !.name = BaseName(a.path)])
    IN Completed(Push(st2, Obs("Action MOVE '{source}' to '{path}' success.",
                               "", Some(a.path), a.source_path, Undef)))
  ELSE Completed(Push(st, Obs("Action MOVE failed: Not found.", "", Undef, Undef, Undef)))

\* CaseMove putting an empty file at the target when there is no source
\* (the mutant of C23).
CaseMoveCreatesTarget(st, a, o) ==
  IF TruthyPath(a.source_path) /\ MapHas(st.fileMap, Val(a.source_path))
  THEN
    LET source == MapGet(st.fileMap, Val(a.source_path))
        st1 == DelFile(st, Val(a.source_path))
        st2 == SetFile(st1, a.path,
                       [source EXCEPT !.path = a.path, !.name = BaseName(a.path)])
    IN Completed(Push(st2, Obs("Action MOVE '{source}' to '{path}' success.",
                               "", Some(a.path), a.source_path, Undef)))
  ELSE Completed(Push(
         SetFile(st, a.path, VFile(a.path, TextContent(<< >>), 0, "file", Undef)),
         Obs("Action MOVE failed: Not found.", "", Undef, Undef, Undef)))

\* CaseMove deleting the target before it looks for the source (the mutant
\* of C7).
CaseMoveDropsTarget(st, a, o) ==
  IF TruthyPath(a.source_path) /\ MapHas(st.fileMap, Val(a.source_path))
  THEN
    LET source == MapGet(st.fileMap, Val(a.source_path))
        st1 == DelFile(st, Val(a.source_path))
        st2 == SetFile(st1, a.path,
                       [source EXCEPT !.path = a.path, !.name = BaseName(a.path)])
    IN Completed(Push(st2, Obs("Action MOVE '{source}' to '{path}' success.",
                               "", Some(a.path), a.source_path, Undef)))
  ELSE Completed(Push(DelFile(st, a.path),
                      Obs("Action MOVE failed: Not found.", "", Undef, Undef, Undef)))

CaseMove(st, a, o) ==
  IF TruthyPath(a.source_path) /\ MapHas(st.fileMap, Val(a.source_path))
  THEN
    LET source == MapGet(st.fileMap, Val(a.source_path))
        st1 == DelFile(st, Val(a.source_path))
        st2 == SetFile(st1, a.path,
                       [source EXCEPT !.path = a.path, !.name = BaseName(a.path)])
    IN Completed(Push(st2, Obs("Action MOVE '{source}' to '{path}' success.",
                               "", Some(a.path), a.source_path, Undef)))
  ELSE Completed(Push(st, Obs("Action MOVE failed: Not found.", "", Undef, Undef, Undef)))

CaseMkdir(st, a, o) ==
  Completed(Push(
    SetFile(st, a.path, VFile(a.path, TextContent(<< >>), 0, "directory", Undef)),
    Obs("Action MKDIR '{path}' success.", "", Some(a.path), Undef, Undef)))

CaseGenerateImage(st, a, o) ==
  IF Truthy(a.content)
  THEN IF o = "fail" THEN Thrown(st, ErrGeneration)
       ELSE Completed(Push(
              SetFile(st, a.path,
                      VFile(a.path, BytesContent(GeneratedImage), Len(GeneratedImage),
                            "file", Some("image/png"))),
              Obs("Action GENERATE_IMAGE '{path}' success.", "", Some(a.path), Undef, Undef)))
  ELSE Completed(st)

CaseCalculateMath(st, a, o) ==
  IF Truthy(a.content)
  THEN IF o = "fail"
       THEN Completed(Push(st, Obs("Action CALCULATE_MATH failed: {text}",
                                   "", Undef, Undef, Some(ErrMath))))
       ELSE Completed(Push(st, Obs("Action CALCULATE_MATH success. Result: {text}",
                                   "", Undef, Undef, Some(<<"result">>))))
  ELSE Completed(st)

CaseGoogleSearch(st, a, o) ==
  IF Truthy(a.content)
  THEN IF o = "fail" THEN Thrown(st, ErrSearch)
       ELSE Completed(Push(st, Obs("{text}", "", Undef, Undef, Some(<<"search result">>))))
  ELSE Completed(st)

CaseRunScript(st, a, o) ==
  IF MapHas(st.fileMap, a.path)
  THEN
    LET scriptFile == MapGet(st.fileMap, a.path) IN
    IF ResolveCanFail(scriptFile) /\ o = "fail"
    THEN Thrown(st, ErrFileReader)
    ELSE IF o = "fail"
    THEN Completed(Push(st, Obs("Action RUN_SCRIPT failed: {text}",
                                "", Undef, Undef, Some(ErrScript))))
    ELSE Completed(Push(st, Obs("Action RUN_SCRIPT '{path}' success. Logs:\n{text}",
                                "", Some(a.path), Undef, Some(<<"logs">>))))
  ELSE Completed(st)

\* switch (action.type): the types without a case fall through.
Switch(st, a, o) ==
  CASE a.type = "read" -> CaseRead(st, a, o)
    [] a.type = "write" -> CaseWrite(st, a, o)
    [] a.type = "append" -> CaseAppend(st, a, o)
    [] a.type = "delete" -> CaseDelete(st, a, o)
    [] a.type = "move" -> CaseMove(st, a, o)
    [] a.type = "mkdir" -> CaseMkdir(st, a, o)
    [] a.type = "generate_image" -> CaseGenerateImage(st, a, o)
    [] a.type = "calculate_math" -> CaseCalculateMath(st, a, o)
    [] a.type = "google_search" -> CaseGoogleSearch(st, a, o)
    [] a.type = "run_script" -> CaseRunScript(st, a, o)
    [] OTHER -> Completed(st)

SkippedObs(a) ==
  Obs("[System Warning] Skipped duplicate action: {type} '{path}'.",
      a.type, Some(a.path), Undef, Undef)

\* A catch that reports a fixed text (the mutant of C6).
CatchObsGeneric(a, err) == Obs("Action failed.", "", Undef, Undef, Undef)

\* The observation the per-action catch pushes.
CatchObs(a, err) == Obs("Action {type} failed: {text}", a.type, Undef, Undef, Some(err))

\* A loop that never finds a signature processed (the mutant of C2).
IsDuplicateNever(st, a) == FALSE

\* Whether the loop skips the action as a duplicate.
IsDuplicate(st, a) == Signature(a) \in st.processedSignatures

\* One iteration of `for (const action of actions)`.
DispatchOne(st, a, o) ==
  LET entry(skipped, threw, after) ==
        [skipped |-> skipped, threw |-> threw,
         nobs |-> Len(after.observations) - Len(st.observations),
         nmut |-> after.nmut - st.nmut,
         before |-> MapValues(st.fileMap), after |-> MapValues(after.fileMap)]
      logged(skipped, threw, after) ==
        [after EXCEPT !.log = Append(@, entry(skipped, threw, after))]
  IN IF IsDuplicate(st, a)
     THEN logged(TRUE, FALSE, Push(st, SkippedObs(a)))
     ELSE LET st1 == [st EXCEPT !.processedSignatures = @ \cup {Signature(a)}]
              r == Switch(st1, a, o)
          IN IF r.threw
             THEN logged(FALSE, TRUE, Push(r.st, CatchObs(a, r.err)))
             ELSE logged(FALSE, FALSE, r.st)

RECURSIVE DispatchAllReversed(_, _, _)
\* A loop that runs the batch from its last action to its first (the mutant
\* of C19).
DispatchAllReversed(st, actions, env) ==
  IF Len(actions) = 0 THEN st
  ELSE DispatchOne(DispatchAllReversed(st, Tail(actions), Tail(env)),
                   Head(actions), Head(env))

RECURSIVE DispatchAll(_, _, _)
DispatchAll(st, actions, env) ==
  IF Len(actions) = 0 THEN st
  ELSE DispatchAll(DispatchOne(st, Head(actions), Head(env)), Tail(actions), Tail(env))

\* performFileActions(currentFiles, actions), with env[i] what the
\* environment does during action i.
performFileActions(fs, actions, env) ==
  LET st == DispatchAll(DispatchState(fs), actions, env)
  IN [updatedFiles |-> MapValues(st.fileMap), observations |-> st.observations,
      observationAttachments |-> st.observationAttachments]

----------------------------------------------------------------------------
(* performFileActions, iteration by iteration *)

\* The stores a dispatch can start from.
InitStores ==
  { << >>,
    <<VFile(PathTxt, TextContent(StrHi), 2, "file", Some("text/plain"))>>,
    <<VFile(PathTxt, FileHandle(<<"t">>), 6 * 1024 * 1024, "file", Some("text/plain")),
      VFile(PathPng, FileHandle(<<"b">>), 4, "file", Some("image/png"))>>,
    <<VFile(PathTxt, FileHandle(<<"t">>), 6 * 1024 * 1024, "file", Some("text/plain")),
      VFile(PathPng, FileHandle(<<"b">>), 21 * 1024 * 1024, "file", Some("image/png")),
      VFile(PathMd, TextContent(StrHi), 2, "file", Some("text/markdown"))>> }

\* The actions a batch is made of.
BatchActions ==
  { Act("read", PathTxt, Undef), Act("read", PathPng, Undef),
    Act("write", PathTxt, Undef), Act("write", PathTxt, Some(StrHi)),
    Act("write", PathTxt, Some(StrAcute)), Act("write", PathPng, Some(StrEmpty)),
    Act("append", PathTxt, Some(StrBang)), Act("append", PathTxt, Undef),
    Act("append", PathPng, Some(StrAcute)), Act("append", PathPng, Some(StrEmpty)),
    Act("delete", PathTxt, Undef),
    Act("move", PathPng, Undef), ActSrc("move", PathPng, Undef, PathTxt),
    ActSrc("move", PathTxt, Undef, PathPng), ActSrc("move", PathPng, Undef, <<"">>),
    ActSrc("move", PathTxt, Undef, PathTxt),
    Act("mkdir", PathPng, Undef),
    Act("generate_image", PathPng, Some(StrHi)), Act("generate_image", PathPng, Undef),
    Act("calculate_math", PathTxt, Some(StrHi)),
    Act("google_search", PathTxt, Some(StrHi)),
    Act("run_script", PathTxt, Undef),
    ActSrc("edit_image", PathPng, Some(StrHi), PathTxt),
    Act("edit_image", PathMd, Some(StrHi)), Act("compose_image", PathMd, Some(StrHi)),
    Action("compose_image", PathPng, Some(StrHi), Undef, Some(<<PathPng, PathTxt>>), Undef, Undef),
    Action("compose_image", PathPng, Some(StrHi), Undef, Some(<<PathTxt, PathPng>>), Undef, Undef),
    Action("trim_video", PathPng, Undef, Some(PathPng), Undef, Some(0), Some(1)) }

DispatchLocals ==
  [fileMap |-> fileMap, observations |-> observations,
   observationAttachments |-> observationAttachments,
   processedSignatures |-> processedSignatures, log |-> dTrace, nmut |-> 0,
   snapshot |-> currentFiles]

SendIdle ==
  /\ pc = "off" /\ files = << >> /\ messages = << >> /\ isProcessing = FALSE
  /\ abortControllerRef = "null" /\ aborted = FALSE /\ dispatches = << >> /\ currentFilesState = << >> /\ conversationHistory = << >>
  /\ turn = 0 /\ actionRetryMap = << >> /\ prompts = << >> /\ endCause = ""
  /\ varied = 0

RetryIdle ==
  /\ rPc = "off" /\ attempt = 0 /\ lastError = "" /\ contents = << >>
  /\ signalAborted = FALSE /\ rCalls = 0 /\ rOutcomes = << >> /\ rResult = ""
  /\ rJson = << >> /\ rTexts = << >>

OverlapIdle == seqs = << >>

StreamIdle ==
  sPc = "off" /\ streamText = << >> /\ thoughts = << >> /\ plans = << >>

DispatchIdle ==
  /\ dPc = "off" /\ currentFiles = << >> /\ dActions = << >> /\ fileMap = << >>
  /\ observations = << >> /\ observationAttachments = << >>
  /\ processedSignatures = {} /\ dTrace = << >>

\* performFileActions is entered with a snapshot: lines 29-33.
InitDispatch ==
  /\ currentFiles \in InitStores
  /\ dPc = "loop"
  /\ dActions = << >>
  /\ fileMap = MapFromFiles(currentFiles)
  /\ observations = << >>
  /\ observationAttachments = << >>
  /\ processedSignatures = {}
  /\ dTrace = << >>
  /\ SendIdle /\ RetryIdle /\ StreamIdle /\ OverlapIdle

\* One iteration of the for loop, on the next action of the batch.
DispatchIter ==
  /\ dPc = "loop"
  /\ Len(dActions) < MaxBatch
  /\ \E a \in BatchActions, o \in Outcomes :
       LET st == DispatchOne(DispatchLocals, a, o) IN
       /\ dActions' = Append(dActions, a)
       /\ fileMap' = st.fileMap
       /\ observations' = st.observations
       /\ observationAttachments' = st.observationAttachments
       /\ processedSignatures' = st.processedSignatures
       /\ dTrace' = st.log
       /\ currentFiles' = st.snapshot
  /\ UNCHANGED <<dPc, sendVars, retryVars, streamVars, overlapVars>>

\* The batch is exhausted: return { updatedFiles, observations, ... }.
DispatchReturn ==
  /\ dPc = "loop"
  /\ dPc' = "returned"
  /\ UNCHANGED <<currentFiles, dActions, fileMap, observations,
                 observationAttachments, processedSignatures, dTrace,
                 sendVars, retryVars, streamVars, overlapVars>>

NextDispatch == DispatchIter \/ DispatchReturn

SpecDispatch == InitDispatch /\ [][NextDispatch]_vars

----------------------------------------------------------------------------
(* Claims about performFileActions (SpecDispatch) *)

\* The iterations consumed so far.
Iters == 1..Len(dActions)

RECURSIVE ObsBefore(_)
\* How many observations the iterations before j pushed.
ObsBefore(j) == IF j <= 1 THEN 0 ELSE ObsBefore(j - 1) + dTrace[j - 1].nobs

\* The observations iteration j pushed.
ObsOf(j) == SubSeq(observations, ObsBefore(j) + 1, ObsBefore(j) + dTrace[j].nobs)

SameTypePathContent(a, b) ==
  a.type = b.type /\ a.path = b.path /\ a.content = b.content

\* C2 as stated: of two actions of a batch identical in (type, path,
\* content), the second is skipped with one 'skipped duplicate' observation
\* and does not touch the store.
C2_SameTypePathContentSkipped ==
  \A i \in Iters, j \in Iters :
    (i < j /\ SameTypePathContent(dActions[i], dActions[j]))
      => /\ dTrace[j].skipped
         /\ dTrace[j].nmut = 0
         /\ ObsOf(j) = <<SkippedObs(dActions[j])>>

\* C2, amended: of two actions of a batch with the same signature (type,
\* path, content, source_path, sorted source_paths, start_time, end_time),
\* every one after the first is skipped: it pushes exactly one 'skipped
\* duplicate' observation and leaves the store as it was; the first is not
\* skipped, so only it can change the store.
C2_DuplicateSignatureSkipped ==
  \A j \in Iters :
    LET earlier == {i \in Iters : i < j /\ Signature(dActions[i]) = Signature(dActions[j])}
    IN IF earlier # {}
       THEN /\ dTrace[j].skipped
            /\ dTrace[j].nmut = 0
            /\ dTrace[j].before = dTrace[j].after
            /\ ObsOf(j) = <<SkippedObs(dActions[j])>>
       ELSE ~dTrace[j].skipped

\* A write that changed the store, and the same write again, skipped.
C2_Witness ==
  /\ dPc = "returned"
  /\ Len(dActions) = 2
  /\ dActions[1] = dActions[2]
  /\ dActions[1].type = "write"
  /\ dTrace[1].nmut = 1
  /\ dTrace[2].skipped

MoveWithoutSource(j) ==
  /\ dActions[j].type = "move"
  /\ ~dTrace[j].skipped
  /\ \/ ~TruthyPath(dActions[j].source_path)
     \/ ~FilesHave(dTrace[j].before, Val(dActions[j].source_path))

\* C7: a move whose source_path is missing or names no entry pushes the
\* failure observation and leaves the store unchanged.
C7_MoveMissingSource ==
  \A j \in Iters :
    MoveWithoutSource(j)
      => /\ ObsOf(j) = <<Obs("Action MOVE failed: Not found.", "", Undef, Undef, Undef)>>
         /\ dTrace[j].after = dTrace[j].before
         /\ dTrace[j].nmut = 0

\* A move naming an absent source ran against a store that holds its target.
C7_Witness ==
  \E j \in Iters :
    /\ MoveWithoutSource(j)
    /\ IsDef(dActions[j].source_path)
    /\ Val(dActions[j].source_path) # <<"">>
    /\ FilesHave(dTrace[j].before, dActions[j].path)

\* The entry of a list of files at a path.
FileAt(fs, p) == fs[CHOOSE i \in 1..Len(fs) : fs[i].path = p]

\* Whether iteration j executed a write with content.
WriteRan(j) ==
  dActions[j].type = "write" /\ ~dTrace[j].skipped /\ IsDef(dActions[j].content)

\* Whether iteration j executed an append onto an entry holding a string.
AppendRan(j) ==
  /\ dActions[j].type = "append" /\ ~dTrace[j].skipped /\ ~dTrace[j].threw
  /\ FilesHave(dTrace[j].before, dActions[j].path)
  /\ FileAt(dTrace[j].before, dActions[j].path).content.kind = "text"

AppendedText(j) ==
  FileAt(dTrace[j].before, dActions[j].path).content.text
    \o (IF Truthy(dActions[j].content) THEN Val(dActions[j].content) ELSE << >>)

\* C8 as stated: a write of c yields an entry with content c and size the
\* length of c; an append of d onto it yields c followed by d and size
\* length(c) + length(d).
C8_SizeIsLength ==
  \A j \in Iters :
    /\ WriteRan(j)
         => /\ FilesHave(dTrace[j].after, dActions[j].path)
            /\ FileAt(dTrace[j].after, dActions[j].path).content
                 = TextContent(Val(dActions[j].content))
            /\ FileAt(dTrace[j].after, dActions[j].path).size = Len(Val(dActions[j].content))
    /\ AppendRan(j)
         => /\ FileAt(dTrace[j].after, dActions[j].path).content = TextContent(AppendedText(j))
            /\ FileAt(dTrace[j].after, dActions[j].path).size = Len(AppendedText(j))

\* C8, amended: a write of c that is executed (not skipped as a duplicate)
\* yields an entry at its path with content c and size the UTF-8 byte
\* length of c; an executed append of d onto an entry holding the string c
\* yields content c followed by d and size the UTF-8 byte length of that.
C8_SizeIsUtf8Length ==
  \A j \in Iters :
    /\ WriteRan(j)
         => /\ FilesHave(dTrace[j].after, dActions[j].path)
            /\ FileAt(dTrace[j].after, dActions[j].path).content
                 = TextContent(Val(dActions[j].content))
            /\ FileAt(dTrace[j].after, dActions[j].path).size
                 = Utf8Len(Val(dActions[j].content))
    /\ AppendRan(j)
         => /\ FileAt(dTrace[j].after, dActions[j].path).content = TextContent(AppendedText(j))
            /\ FileAt(dTrace[j].after, dActions[j].path).size = Utf8Len(AppendedText(j))

\* write 'hi' (size 2), then append '!' : 'hi!' of size 3.
C8_Witness ==
  /\ dPc = "returned"
  /\ currentFiles = << >>
  /\ dActions = <<Act("write", PathTxt, Some(StrHi)), Act("append", PathTxt, Some(StrBang))>>
  /\ dTrace[1].after = <<VFile(PathTxt, TextContent(StrHi), 2, "file", Some("text/plain"))>>
  /\ MapValues(fileMap)
       = <<VFile(PathTxt, TextContent(<<"h", "i", "!">>), 3, "file", Some("text/plain"))>>

----------------------------------------------------------------------------
(* Conversation entries and the prompt runAgent builds *)

MAX_TURNS == 30
MAX_RETRY_COUNT == 3

\* The text of a message: a fixed text, and for an observation the
\* observation strings and retry instructions joined into it.
Content(text, obs, retry) ==
  [text |-> text, observations |-> obs, retryInstructions |-> retry]

Msg(role, content, attachments, agentResponse, isObservation, isError) ==
  [role |-> role, content |-> content, attachments |-> attachments,
   agentResponse |-> agentResponse, isObservation |-> isObservation,
   isError |-> isError]

\* An AgentResponse as JSON.parse returns it: every field may be missing.
Resp(thought, actions, final_answer) ==
  [thought |-> thought, actions |-> actions, final_answer |-> final_answer]

\* The agentResponse of the model message pushed before the call.
Placeholder == Resp(Some(<<"Thinking...">>), Some(<< >>), Undef)

areActionsIdentical(actions1, actions2) ==
  IF ~IsDef(actions1) \/ ~IsDef(actions2) THEN FALSE
  ELSE IF Len(Val(actions1)) # Len(Val(actions2)) THEN FALSE
  ELSE IF Len(Val(actions1)) = 0 THEN FALSE
  ELSE LET a1 == Val(actions1)[1]
           a2 == Val(actions2)[1]
       IN a1.type = a2.type /\ a1.path = a2.path /\ a1.content = a2.content

\* chatHistory.filter(m => m.role === 'model' && m.agentResponse)
ModelMessages(chatHistory) ==
  SelectSeq(chatHistory, LAMBDA m : m.role = "model" /\ IsDef(m.agentResponse))

isLoopingDetected(chatHistory) ==
  LET modelMessages == ModelMessages(chatHistory)
      n == Len(modelMessages)
  IN /\ n >= 2
     /\ areActionsIdentical(Val(modelMessages[n].agentResponse).actions,
                            Val(modelMessages[n - 1].agentResponse).actions)

lastUserMsgIndex(chatHistory) ==
  LET users == {i \in 1..Len(chatHistory) : chatHistory[i].role = "user"}
  IN IF users = {} THEN 0 ELSE CHOOSE i \in users : \A j \in users : j <= i

\* Whether building the prompt awaits a FileReader: an attachment whose
\* content is still a File handle (and not above the 20 MB cut).
PromptResolvesFile(chatHistory) ==
  \E i \in 1..Len(chatHistory) :
    /\ IsDef(chatHistory[i].attachments)
    /\ \E k \in 1..Len(Val(chatHistory[i].attachments)) :
         LET file == Val(chatHistory[i].attachments)[k]
         IN file.content.kind = "file" /\ file.size <= ReadAttachLimit

\* What runAgent puts into contents before its retry loop: which entry gets
\* the file context, and whether the repetition warning is added to it.
BuildPrompt(chatHistory) ==
  [entries |-> Len(chatHistory),
   lastUserMsgIndex |-> lastUserMsgIndex(chatHistory),
   loopWarning |-> lastUserMsgIndex(chatHistory) # 0 /\ isLoopingDetected(chatHistory)]

----------------------------------------------------------------------------
(* handleSendMessage *)

\* A loop that runs one turn too many (the mutant of C4).
LoopContinuesOneMore(t) == t <= MAX_TURNS

\* while (turn < MAX_TURNS)
LoopContinues(t) == t < MAX_TURNS

\* A cap that lets one more retry through (the mutant of C3).
RetryAllowedOneMore(currentRetries) == currentRetries <= MAX_RETRY_COUNT

\* A loop that never breaks on a final answer (the mutant of C9).
IsFinalNever(r) == FALSE

\* if (agentResponse.final_answer) break;
IsFinal(r) == Truthy(r.final_answer)

\* A key that leaves the action type out (the mutant of C27).
RetryKeyPathOnly(action) == [type |-> "", path |-> action.path]

\* if (currentRetries < MAX_RETRY_COUNT)
RetryAllowed(currentRetries) == currentRetries < MAX_RETRY_COUNT

RetryKey(action) == [type |-> action.type, path |-> action.path]

RetryInstruction(kind, action, n) ==
  [kind |-> kind, type |-> action.type, path |-> action.path, attempt |-> n]

RECURSIVE VerifyActions(_, _, _, _)
\* The retry verification loop over agentResponse.actions.
VerifyActions(actions, updatedFiles, retryMap, retryInstructions) ==
  IF Len(actions) = 0
  THEN [actionRetryMap |-> retryMap, retryInstructions |-> retryInstructions]
  ELSE
    LET action == Head(actions)
        retryKey == RetryKey(action)
        currentRetries == IF MapHas(retryMap, retryKey) THEN MapGet(retryMap, retryKey) ELSE 0
    IN IF action.type \in {"write", "mkdir"} /\ ~FilesHave(updatedFiles, action.path)
       THEN IF RetryAllowed(currentRetries)
            THEN VerifyActions(Tail(actions), updatedFiles,
                               MapSet(retryMap, retryKey, currentRetries + 1),
                               Append(retryInstructions,
                                      RetryInstruction("retry", action, currentRetries + 1)))
            ELSE VerifyActions(Tail(actions), updatedFiles, retryMap,
                               Append(retryInstructions,
                                      RetryInstruction("final", action, MAX_RETRY_COUNT)))
       ELSE VerifyActions(Tail(actions), updatedFiles, retryMap, retryInstructions)

UserText == "user text"
ContinueText == "[System: Please continue or finalize.]"
NoActionsText == "[System Warning: No actions taken.]"
ObservationText == "Observation:"

PlaceholderMessage == Msg("model", Content("", << >>, << >>), Undef, Some(Placeholder), FALSE, FALSE)

ObservationMessage(content, attachments) ==
  Msg("user", content, attachments, Undef, TRUE, FALSE)

ErrorMessage(e) == Msg("model", Content(e, << >>, << >>), Undef, Undef, FALSE, TRUE)

\* What the model answers in the modelled sends.
Thought == Some(<<"t">>)
RespWrite == Resp(Thought, Some(<<Act("write", PathTxt, Some(StrHi))>>), Undef)
RespWriteRead ==
  Resp(Thought, Some(<<Act("write", PathTxt, Some(StrHi)), Act("read", PathTxt, Undef)>>), Undef)
RespWriteNoContent == Resp(Thought, Some(<<Act("write", PathTxt, Undef)>>), Undef)
RespThink == Resp(Thought, Some(<< >>), Undef)
RespNothing == Resp(Some(<< >>), Undef, Undef)
RespFinal == Resp(Thought, Some(<<Act("delete", PathTxt, Undef)>>), Some(<<"d">>))
RespEmptyFinal ==
  Resp(Thought, Some(<<Act("mkdir", PathPng, Undef), Act("delete", PathPng, Undef)>>),
       Some(<< >>))

Responses == {RespWrite, RespWriteRead, RespWriteNoContent, RespThink, RespNothing,
              RespFinal, RespEmptyFinal}

\* The files a send can upload (handleFileUpload's result).
Uploads == { << >>, <<VFile(PathPng, FileHandle(<<"b">>), 4, "file", Some("image/png"))>> }

\* The errors a runAgent call can fail with, besides "Aborted".
ErrPermission == "Permission Denied (403)"
ErrInvalidJson == "Model returned invalid JSON format."
RunAgentErrors == {ErrPermission, ErrInvalidJson}

\* The response of the latest completed model turn.
LastResponse == Val(conversationHistory[Len(conversationHistory) - 2].agentResponse)

\* The responses the model may give now.
NextResponses ==
  IF varied < MaxVaried THEN Responses ELSE {LastResponse, RespFinal}

\* A sequence that ends without its finally block (the mutant of C36).
FinishKeepsFlag(cause) ==
  /\ pc' = "done"
  /\ endCause' = cause
  /\ UNCHANGED isProcessing

\* finally { setIsProcessing(false) }
Finish(cause) ==
  /\ pc' = "done"
  /\ isProcessing' = FALSE
  /\ endCause' = cause

\* The loop body up to the await of runAgent: lines 272-304, and the prompt
\* runAgent builds from the history it is given.
IterationStart(history) ==
  /\ turn' = turn + 1
  /\ conversationHistory' = Append(history, PlaceholderMessage)
  /\ messages' = conversationHistory'
  /\ prompts' = Append(prompts, BuildPrompt(conversationHistory'))
  /\ pc' = "awaitModel"

\* The top of the while loop, reached with `history`.
LoopTop(history) ==
  IF ~LoopContinues(turn)
  THEN /\ Finish("cap")
       /\ conversationHistory' = history
       /\ UNCHANGED <<messages, turn, prompts>>
  ELSE IF aborted
  THEN /\ Finish("aborted")
       /\ conversationHistory' = history
       /\ UNCHANGED <<messages, turn, prompts>>
  ELSE /\ IterationStart(history)
       /\ UNCHANGED <<isProcessing, endCause>>

InitSend ==
  /\ pc = "idle"
  /\ files = << >>
  /\ messages = << >>
  /\ isProcessing = FALSE
  /\ abortControllerRef = "null"
  /\ aborted = FALSE
  /\ currentFilesState = << >>
  /\ conversationHistory = << >>
  /\ turn = 0
  /\ actionRetryMap = << >>
  /\ prompts = << >>
  /\ endCause = ""
  /\ dispatches = << >>
  /\ varied = 0
  /\ DispatchIdle /\ RetryIdle /\ StreamIdle /\ OverlapIdle

\* handleSendMessage up to its first await of runAgent.
SendMessage ==
  /\ pc = "idle"
  /\ abortControllerRef' = "controller"
  /\ aborted' = FALSE
  /\ \E newFiles \in Uploads :
       LET merged == MapValues(MapFromFiles(files \o newFiles))
           initialUserMessage ==
             Msg("user", Content(UserText, << >>, << >>),
                 IF Len(newFiles) > 0 THEN Some(newFiles) ELSE Undef,
                 Undef, FALSE, FALSE)
       IN /\ currentFilesState' = IF Len(newFiles) > 0 THEN merged ELSE files
          /\ files' = IF Len(newFiles) > 0 THEN merged ELSE files
          /\ IterationStart(Append(messages, initialUserMessage))
  /\ isProcessing' = TRUE
  /\ UNCHANGED <<actionRetryMap, endCause, dispatches, varied, dispatchVars, retryVars, streamVars, overlapVars>>

\* messages with the agentResponse of the entry of this turn replaced.
PublishResponse(msgs, idx, r) ==
  IF idx \in 1..Len(msgs) /\ msgs[idx].role = "model" /\ ~msgs[idx].isError
  THEN [msgs EXCEPT ![idx].agentResponse = Some(r)]
  ELSE msgs

\* A branch without actions that appends nothing (the mutant of C28).
NoActionTurnSilent(history, r) ==
  /\ conversationHistory' = history
  /\ messages' = conversationHistory'
  /\ pc' = "sleep"

\* A branch without actions that always injects the soft prompt (the
\* mutant of C29).
NoActionTurnSoftOnly(history, r) ==
  /\ conversationHistory'
       = Append(history, ObservationMessage(Content(ContinueText, << >>, << >>), Undef))
  /\ messages' = conversationHistory'
  /\ pc' = "sleep"

\* The branch without actions: lines 350-363.
NoActionTurn(history, r) ==
  LET observationText == IF Truthy(r.thought) THEN ContinueText ELSE NoActionsText
  IN /\ conversationHistory'
          = Append(history, ObservationMessage(Content(observationText, << >>, << >>), Undef))
     /\ messages' = conversationHistory'
     /\ pc' = "sleep"

\* An assignment that lands on the first entry of the history (the mutant
\* of C22).
SetAgentResponseFirst(history, r) == [history EXCEPT ![1].agentResponse = Some(r)]

\* conversationHistory[conversationHistory.length - 1].agentResponse = agentResponse
SetAgentResponse(history, r) ==
  [history EXCEPT ![Len(history)].agentResponse = Some(r)]

\* runAgent resolves with r: lines 306-321 and 350-364.
ModelReturns ==
  /\ pc = "awaitModel"
  /\ \E r \in NextResponses :
       IF aborted
       THEN /\ Finish("aborted")
            /\ UNCHANGED <<messages, conversationHistory, dispatches, varied>>
       ELSE
         LET n == Len(conversationHistory)
             history == SetAgentResponse(conversationHistory, r)
         IN /\ varied' = IF varied < MaxVaried THEN varied + 1 ELSE varied
            /\ IF IsFinal(r)
               THEN /\ Finish("final")
                    /\ conversationHistory' = history
                    /\ messages' = PublishResponse(messages, n, r)
                    /\ UNCHANGED dispatches
               ELSE IF IsDef(r.actions) /\ Len(Val(r.actions)) > 0
               THEN /\ pc' = "dispatch"
                    /\ conversationHistory' = history
                    /\ messages' = PublishResponse(messages, n, r)
                    /\ dispatches' = Append(dispatches, turn)
                    /\ UNCHANGED <<isProcessing, endCause>>
               ELSE /\ NoActionTurn(history, r)
                    /\ UNCHANGED <<isProcessing, endCause, dispatches>>
  /\ UNCHANGED <<files, abortControllerRef, aborted, currentFilesState, turn,
                 actionRetryMap, prompts, dispatchVars, retryVars, streamVars, overlapVars>>

\* runAgent rejects: the catch and finally of lines 366-372.
ModelThrows ==
  /\ pc = "awaitModel"
  /\ \E e \in (IF aborted THEN {"Aborted"} ELSE RunAgentErrors)
               \cup (IF PromptResolvesFile(conversationHistory)
                     THEN {"FileReader error"} ELSE {}) :
       IF e = "Aborted"
       THEN Finish("aborted") /\ UNCHANGED messages
       ELSE Finish("error") /\ messages' = Append(messages, ErrorMessage(e))
  /\ UNCHANGED <<files, abortControllerRef, aborted, currentFilesState,
                 conversationHistory, turn, actionRetryMap, prompts, dispatches,
                 varied, dispatchVars, retryVars, streamVars, overlapVars>>

\* performFileActions resolves: lines 321-349 and 354-364.
DispatchDone ==
  /\ pc = "dispatch"
  /\ LET agentResponse == Val(conversationHistory[Len(conversationHistory)].agentResponse)
         actions == Val(agentResponse.actions)
     IN \E env \in [1..Len(actions) -> Outcomes] :
        \E result \in {performFileActions(currentFilesState, actions, env)} :
        \E verified \in {VerifyActions(actions, result.updatedFiles, actionRetryMap, << >>)} :
             /\ actionRetryMap' = verified.actionRetryMap
             /\ currentFilesState' = result.updatedFiles
             /\ files' = result.updatedFiles
             /\ conversationHistory'
                  = Append(conversationHistory,
                           ObservationMessage(
                             Content(ObservationText, result.observations,
                                     verified.retryInstructions),
                             IF Len(result.observationAttachments) > 0
                             THEN Some(result.observationAttachments) ELSE Undef))
             /\ messages' = conversationHistory'
  /\ pc' = "sleep"
  /\ UNCHANGED <<isProcessing, abortControllerRef, aborted, turn, prompts, endCause,
                 dispatches, varied, dispatchVars, retryVars, streamVars, overlapVars>>

\* The 400 ms sleep is over: back to the top of the loop.
Wake ==
  /\ pc = "sleep"
  /\ LoopTop(conversationHistory)
  /\ UNCHANGED <<files, abortControllerRef, aborted, currentFilesState,
                 actionRetryMap, dispatches, varied, dispatchVars, retryVars, streamVars, overlapVars>>

\* handleStop
Stop ==
  /\ abortControllerRef # "null"
  /\ aborted' = TRUE
  /\ abortControllerRef' = "null"
  /\ isProcessing' = FALSE
  /\ UNCHANGED <<pc, files, messages, currentFilesState, conversationHistory, turn,
                 actionRetryMap, prompts, endCause, dispatches, varied,
                 dispatchVars, retryVars, streamVars, overlapVars>>

Next == SendMessage \/ ModelReturns \/ ModelThrows \/ DispatchDone \/ Wake \/ Stop

Spec == InitSend /\ [][Next]_vars

----------------------------------------------------------------------------
(* Claims about the turn loop (Spec) *)

\* The model entries of the history whose call has completed.
CompletedTurns ==
  ModelMessages(IF pc = "awaitModel"
                THEN SubSeq(conversationHistory, 1, Len(conversationHistory) - 1)
                ELSE conversationHistory)

\* Whether two responses have a first action identical in (type, path,
\* content).
SameFirstAction(r1, r2) ==
  /\ IsDef(r1.actions) /\ IsDef(r2.actions)
  /\ Len(Val(r1.actions)) > 0 /\ Len(Val(r2.actions)) > 0
  /\ SameTypePathContent(Val(r1.actions)[1], Val(r2.actions)[1])

\* C1: when the two most recent model turns have a first action identical
\* in (type, path, content), the prompt of the next model call holds the
\* repetition warning.
C1_RepetitionWarned ==
  pc = "awaitModel"
    => LET n == Len(CompletedTurns)
       IN (n >= 2 /\ SameFirstAction(Val(CompletedTurns[n].agentResponse),
                                     Val(CompletedTurns[n - 1].agentResponse)))
            => prompts[Len(prompts)].loopWarning

RECURSIVE InstructionsOf(_)
\* Every retry instruction of the history, oldest first.
InstructionsOf(history) ==
  IF Len(history) = 0 THEN << >>
  ELSE InstructionsOf(SubSeq(history, 1, Len(history) - 1))
         \o history[Len(history)].content.retryInstructions

\* How many 'retry this action' directives before the i-th instruction are
\* for the same (type, path).
RetriesBefore(d, i) ==
  Cardinality({j \in 1..(i - 1) :
                 d[j].kind = "retry" /\ d[j].type = d[i].type /\ d[j].path = d[i].path})

\* C3: each failed verification of a write (its path absent from the store
\* after the dispatch) gets one instruction; for one (type, path) the first
\* MAX_RETRY_COUNT of them are 'retry this action' directives, numbered in
\* order, and every later one is the terminal failure notice.
C3_RetryCapped ==
  LET d == InstructionsOf(conversationHistory)
      n == Len(conversationHistory)
  IN /\ \A i \in 1..Len(d) :
          /\ d[i].kind = "retry"
               => RetriesBefore(d, i) < MAX_RETRY_COUNT /\ d[i].attempt = RetriesBefore(d, i) + 1
          /\ d[i].kind = "final" => RetriesBefore(d, i) = MAX_RETRY_COUNT
     /\ (pc = "sleep" /\ conversationHistory[n].content.text = ObservationText)
          => LET actions == Val(Val(conversationHistory[n - 1].agentResponse).actions)
                 failed == {k \in 1..Len(actions) :
                              /\ actions[k].type \in {"write", "mkdir"}
                              /\ ~FilesHave(files, actions[k].path)}
             IN Len(conversationHistory[n].content.retryInstructions) = Cardinality(failed)

\* A write got its terminal failure notice.
C3_Witness ==
  \E i \in 1..Len(conversationHistory) :
    \E k \in 1..Len(conversationHistory[i].content.retryInstructions) :
      /\ conversationHistory[i].content.retryInstructions[k].kind = "final"
      /\ conversationHistory[i].content.retryInstructions[k].type = "write"

NoFinalAnswer ==
  \A i \in 1..Len(conversationHistory) :
    IsDef(conversationHistory[i].agentResponse)
      => ~Truthy(Val(conversationHistory[i].agentResponse).final_answer)

NoErrorEntry == \A i \in 1..Len(messages) : ~messages[i].isError

\* C4: a send in which no response carries a final answer and no error or
\* cancellation occurs makes exactly MAX_TURNS model calls and stops; no
\* send makes more.
C4_ExactlyMaxTurns ==
  /\ Len(prompts) <= MAX_TURNS
  /\ turn = Len(prompts)
  /\ (pc = "done" /\ NoFinalAnswer /\ NoErrorEntry /\ ~aborted)
       => Len(prompts) = MAX_TURNS /\ endCause = "cap"
  /\ (pc = "done" /\ endCause = "cap") => Len(prompts) = MAX_TURNS

\* The loop ended at the cap.
C4_Witness == pc = "done" /\ endCause = "cap" /\ NoFinalAnswer /\ NoErrorEntry /\ ~aborted

\* C5: when the loop stops at the turn cap, a bounded-iteration notice is
\* in the conversation: an entry that is neither the user's message, a model
\* turn, nor the observation of a turn.
C5_CapNoticeEmitted ==
  (pc = "done" /\ endCause = "cap")
    => \E i \in 1..Len(messages) :
         messages[i].content.text
           \notin {UserText, "", ObservationText, ContinueText, NoActionsText}

\* C9 as stated: a response that carries a final_answer ends the loop at
\* its turn.
C9_AnyFinalAnswerStops ==
  \A i \in 1..Len(conversationHistory) :
    (/\ IsDef(conversationHistory[i].agentResponse)
     /\ IsDef(Val(conversationHistory[i].agentResponse).final_answer))
      => i = Len(conversationHistory) /\ pc = "done"

\* C9, amended: a response that carries a non-empty final_answer ends the
\* loop at its turn: its actions are not dispatched, no observation entry
\* follows it and no further model call is made.
C9_NonEmptyFinalStops ==
  \A i \in 1..Len(conversationHistory) :
    (/\ IsDef(conversationHistory[i].agentResponse)
     /\ Truthy(Val(conversationHistory[i].agentResponse).final_answer))
      => /\ i = Len(conversationHistory)
         /\ pc = "done"
         /\ endCause = "final"
         /\ \A k \in 1..Len(dispatches) : dispatches[k] # turn
         /\ Len(prompts) = Len(ModelMessages(conversationHistory))

\* A final answer came with a delete of a file that is still there.
C9_Witness ==
  /\ pc = "done" /\ endCause = "final"
  /\ turn >= 2
  /\ Val(conversationHistory[Len(conversationHistory)].agentResponse) = RespFinal
  /\ FilesHave(files, PathTxt)

---------------------------------------------------------------------------------
(* Further claims about handleSendMessage (Spec) *)

\* The last model entry of a history, or 0.
LastModelIndex(history) ==
  LET ms == {i \in 1..Len(history) : history[i].role = "model"}
  IN IF ms = {} THEN 0 ELSE CHOOSE i \in ms : \A j \in ms : j <= i

\* C22: the conversation history of a send sequence only grows at its end;
\* no entry is removed, moved or changed, except that the agentResponse of
\* the most recently appended model entry, still the placeholder, is
\* replaced when the model call has completed.
C22_HistoryAppendOnly ==
  [][ /\ Len(conversationHistory') >= Len(conversationHistory)
      /\ \A i \in 1..Len(conversationHistory) :
           \/ conversationHistory'[i] = conversationHistory[i]
           \/ /\ pc = "awaitModel"
              /\ i = LastModelIndex(conversationHistory)
              /\ i = Len(conversationHistory)
              /\ conversationHistory[i].agentResponse = Some(Placeholder)
              /\ conversationHistory'[i]
                   = [conversationHistory[i] EXCEPT
                        !.agentResponse = conversationHistory'[i].agentResponse]
    ]_vars

\* A model entry whose placeholder was replaced, followed by an observation
\* and the next model entry.
C22_Witness ==
  /\ Len(conversationHistory) >= 4
  /\ conversationHistory[2].role = "model"
  /\ conversationHistory[2].agentResponse # Some(Placeholder)
  /\ conversationHistory[3].isObservation
  /\ conversationHistory[4].role = "model"

\* C28: after the initial user message the history alternates model entry,
\* observation entry (role user, isObservation set): every turn that
\* completed without a final answer appended exactly one observation after
\* its model entry, a final answer none; and every model call was issued
\* on a history whose last user entry, the entry before the placeholder,
\* is the initial message or an observation.
C28_ModelObservationAlternate ==
  /\ \A i \in 1..Len(conversationHistory) :
       LET e == conversationHistory[i] IN
       /\ i = 1 => e.role = "user" /\ ~e.isObservation
       /\ (i > 1 /\ i % 2 = 0) => e.role = "model" /\ ~e.isObservation /\ ~e.isError
       /\ (i > 1 /\ i % 2 = 1) =>
            /\ e.role = "user" /\ e.isObservation
            /\ conversationHistory[i - 1].agentResponse # Some(Placeholder)
            /\ ~IsFinal(Val(conversationHistory[i - 1].agentResponse))
  /\ Len(conversationHistory) \in {2 * turn, 2 * turn + 1}
  /\ pc \in {"awaitModel", "dispatch"} => Len(conversationHistory) = 2 * turn
  /\ pc = "sleep" => Len(conversationHistory) = 2 * turn + 1
  /\ endCause = "final" =>
       /\ Len(conversationHistory) = 2 * turn
       /\ IsFinal(Val(conversationHistory[2 * turn].agentResponse))
  /\ Len(prompts) = turn
  /\ \A k \in 1..Len(prompts) :
       /\ prompts[k].entries = 2 * k
       /\ prompts[k].lastUserMsgIndex = 2 * k - 1

\* A turn with a batch and a turn without actions each left their
\* observation, and the third model call has been issued.
C28_Witness ==
  /\ pc = "awaitModel"
  /\ Len(conversationHistory) = 6
  /\ conversationHistory[3].content.text = ObservationText
  /\ conversationHistory[5].content.text = ContinueText
  /\ prompts[3].lastUserMsgIndex = 5

\* Whether a response carries no action: the list is missing or empty.
NoActions(r) == ~IsDef(r.actions) \/ Val(r.actions) = << >>

\* C29: when the model call returns a response without a final answer whose
\* action list is empty or missing, the same step appends the observation
\* and nothing is dispatched: the store and the sequence's snapshot of it
\* stay as they were, and the observation is the soft 'continue or
\* finalize' prompt if the thought is non-empty, the 'no actions taken'
\* warning otherwise, without attachments.
C29_NoActionsNoDispatch ==
  [][ LET n == Len(conversationHistory) IN
      ( /\ n > 0 /\ Len(conversationHistory') >= n
        /\ conversationHistory[n].agentResponse = Some(Placeholder)
        /\ conversationHistory'[n].agentResponse # Some(Placeholder)
        /\ ~IsFinal(Val(conversationHistory'[n].agentResponse))
        /\ NoActions(Val(conversationHistory'[n].agentResponse)) )
      => LET r == Val(conversationHistory'[n].agentResponse) IN
         /\ Len(conversationHistory') = n + 1
         /\ conversationHistory'[n + 1]
              = Msg("user",
                    Content(IF IsDef(r.thought) /\ Val(r.thought) # << >>
                            THEN "[System: Please continue or finalize.]"
                            ELSE "[System Warning: No actions taken.]",
                            << >>, << >>),
                    Undef, Undef, TRUE, FALSE)
         /\ messages' = conversationHistory'
         /\ files' = files
         /\ currentFilesState' = currentFilesState
         /\ actionRetryMap' = actionRetryMap
         /\ dispatches' = dispatches
         /\ pc' # "dispatch"
    ]_vars

\* One turn with a thought and an empty action list, one with neither
\* thought nor action list: the soft prompt, then the warning, and no
\* dispatch in either.
C29_Witness ==
  /\ Len(conversationHistory) >= 5
  /\ conversationHistory[2].agentResponse = Some(RespThink)
  /\ conversationHistory[3].content.text = ContinueText
  /\ conversationHistory[4].agentResponse = Some(RespNothing)
  /\ conversationHistory[5].content.text = NoActionsText
  /\ dispatches = << >>

\* C38: once the sequence has ended, however it ended, no entry of the
\* history, nor of the messages shown, still holds the placeholder
\* response pushed before the model call.
C38_NoPlaceholderAfterEnd ==
  pc = "done" =>
    /\ \A i \in 1..Len(conversationHistory) :
         conversationHistory[i].agentResponse # Some(Placeholder)
    /\ \A i \in 1..Len(messages) : messages[i].agentResponse # Some(Placeholder)

\* The send sequence under its scheduling: the promise of a model call
\* settles, the promise of a dispatch settles once the collaborators of its
\* actions have returned or failed, and the timer of the 400 ms sleep
\* fires.  Nothing obliges the user to send or to stop.  The state is the
\* one after construction; the model's answer is free in the first turn
\* and is then either repeated or final, up to the turn cap.  DispatchDone
\* is enabled exactly where pc = "dispatch" and each of its steps leaves
\* there, so its weak fairness is that pc is not "dispatch" for ever; it
\* is written in that form, which spares evaluating ENABLED of the whole
\* dispatch in every state.
InitFair ==
  /\ pc = "idle"
  /\ files = << >>
  /\ messages = << >>
  /\ isProcessing = FALSE
  /\ abortControllerRef = "null"
  /\ aborted = FALSE
  /\ currentFilesState = << >>
  /\ conversationHistory = << >>
  /\ turn = 0
  /\ actionRetryMap = << >>
  /\ prompts = << >>
  /\ endCause = ""
  /\ dispatches = << >>
  /\ varied = MaxVaried - 1
  /\ DispatchIdle /\ RetryIdle /\ StreamIdle /\ OverlapIdle

SpecFair ==
  /\ InitFair /\ [][Next]_vars
  /\ WF_vars(ModelReturns \/ ModelThrows)
  /\ []<>(pc # "dispatch")
  /\ WF_vars(Wake)

\* C36: a send sequence that was started ends, with the processing flag
\* cleared: no state of the loop waits for anything but the model call,
\* the dispatch or the sleep, and the turn counter bounds the iterations.
C36_SequenceTerminates == (pc # "idle") ~> (pc = "done" /\ ~isProcessing)

\* A sequence that went through every turn the cap allows, dispatching on
\* the way, and was ended by the cap with the flag cleared.
C36_Witness ==
  /\ pc = "done" /\ ~isProcessing
  /\ endCause = "cap" /\ turn = MAX_TURNS /\ ~aborted
  /\ dispatches # << >>

-----------------------------------------------------------------------
(* runAgent: the retry loop around the model call *)

MAX_RETRIES == 3

\* How one attempt ends: valid JSON, an empty stream, text that does not
\* parse, a 403 of the API, another failure of the call, or the abort seen
\* by the chunk loop.
AttemptOutcomes == {"ok", "empty", "badjson", "permission", "network", "abortSeen"}

ErrEmpty == "Empty response from Gemini"
ErrNetwork == "fetch failed"
ErrAborted == "Aborted"

Err403 == "403 PERMISSION_DENIED"

\* The error an attempt's failure is caught as.
AttemptError(o) ==
  CASE o = "empty" -> ErrEmpty
    [] o = "badjson" -> ErrInvalidJson
    [] o = "permission" -> Err403
    [] o = "network" -> ErrNetwork
    [] OTHER -> ErrAborted

\* A catch that takes no error for a permission error (the mutant of C11).
IsPermissionErrorNever(error) == FALSE

\* error.message?.includes('403') || error.status === 403 ||
\* error.message?.includes('PERMISSION_DENIED')
IsPermissionError(error) == error = Err403

\* A catch that keeps the first error (the mutant of C12).
CaughtErrorFirst(prev, error) == IF prev = "" THEN error ELSE prev

\* lastError = error as Error
CaughtError(prev, error) == error

\* The pieces of a streamed text: white space, the fences of a Markdown code
\* block, text that is no JSON, the JSON literal null, and a JSON object
\* with the given keys.
Tok(kind, keys) == [kind |-> kind, keys |-> keys]
TokWs == Tok("ws", {})
TokFenceJson == Tok("fence_json", {})
TokFence == Tok("fence", {})
TokGarbage == Tok("garbage", {})
TokNull == Tok("null", {})
TokObj(keys) == Tok("object", keys)

\* required: ["thought", "plan", "actions", "risk_assessment"]
RequiredFields == {"thought", "plan", "actions", "risk_assessment"}

\* The texts a stream may end with.
Texts ==
  { << >>, <<TokWs>>, <<TokGarbage>>, <<TokNull>>,
    <<TokObj(RequiredFields)>>,
    <<TokObj(RequiredFields \cup {"final_answer"})>>,
    <<TokFenceJson, TokWs, TokObj(RequiredFields), TokWs, TokFence>>,
    <<TokFence, TokObj(RequiredFields), TokFence, TokWs>>,
    <<TokObj(RequiredFields), TokGarbage>>,
    <<TokFenceJson, TokObj(RequiredFields)>>,
    <<TokObj({})>> }
  \cup { <<TokObj(RequiredFields \ {k})>> : k \in RequiredFields }

RECURSIVE TrimStart(_)
TrimStart(s) == IF s # << >> /\ Head(s).kind = "ws" THEN TrimStart(Tail(s)) ELSE s

RECURSIVE TrimEnd(_)
TrimEnd(s) ==
  IF s # << >> /\ s[Len(s)].kind = "ws" THEN TrimEnd(SubSeq(s, 1, Len(s) - 1)) ELSE s

\* String.prototype.trim
Trim(s) == TrimEnd(TrimStart(s))

\* .replace(/```$/, '')
DropEndFence(s) ==
  IF s # << >> /\ s[Len(s)].kind = "fence" THEN SubSeq(s, 1, Len(s) - 1) ELSE s

\* Lines 351-356: trim, then strip the fences of a code block.
StripFences(text) ==
  LET t == Trim(text)
  IN IF t # << >> /\ Head(t).kind \in {"fence_json", "fence"}
     THEN DropEndFence(Tail(t))
     ELSE t

\* JSON.parse: the value, or nothing when it throws a SyntaxError.
JSONparse(text) ==
  LET t == Trim(text)
  IN IF Len(t) = 1 /\ t[1].kind \in {"object", "null"} THEN Some(t[1]) ELSE Undef

\* How an attempt whose stream ended with fullText ends: lines 347-364.
StreamOutcome(fullText) ==
  IF fullText = << >> THEN "empty"
  ELSE IF IsDef(JSONparse(StripFences(fullText))) THEN "ok"
  ELSE "badjson"

CorrectiveMessage ==
  "System Error: Your last response was not valid JSON. Please fix it and output STRICT valid JSON matching the schema."

\* A loop that allows one attempt more (the mutant of C10).
AttemptAllowedOneMore(a) == a <= MAX_RETRIES

\* for (...; attempt < MAX_RETRIES; ...)
AttemptAllowed(a) == a < MAX_RETRIES

\* The retry loop is entered, the prompt built; the signal may have been
\* aborted while the prompt's attachments were read.
InitRetry ==
  /\ rPc = "top"
  /\ attempt = 0
  /\ lastError = ""
  /\ contents = << >>
  /\ signalAborted \in BOOLEAN
  /\ rCalls = 0
  /\ rOutcomes = << >>
  /\ rResult = ""
  /\ rJson = << >>
  /\ rTexts = << >>
  /\ DispatchIdle /\ SendIdle /\ StreamIdle /\ OverlapIdle

\* The head of the for loop and the abort check of line 302, then the call
\* of generateContentStream; after the loop, line 383.
AttemptBegin ==
  /\ rPc = "top"
  /\ IF ~AttemptAllowed(attempt)
     THEN /\ rPc' = "thrown"
          /\ rResult' = IF lastError # "" THEN lastError
                        ELSE "Failed to get valid response after retries"
          /\ UNCHANGED rCalls
     ELSE IF signalAborted
     THEN /\ rPc' = "thrown"
          /\ rResult' = ErrAborted
          /\ UNCHANGED rCalls
     ELSE /\ rPc' = "inCall"
          /\ rCalls' = rCalls + 1
          /\ UNCHANGED rResult
  /\ UNCHANGED <<attempt, lastError, contents, signalAborted, rOutcomes,
                 rJson, rTexts, dispatchVars, sendVars, streamVars, overlapVars>>

\* The attempt ends: lines 304-381.
AttemptEnd ==
  /\ rPc = "inCall"
  /\ \E o \in AttemptOutcomes, fullText \in Texts :
       /\ o = "abortSeen" => signalAborted
       /\ IF o \in {"ok", "empty", "badjson"}
          THEN StreamOutcome(fullText) = o
          ELSE fullText = << >>
       /\ rOutcomes' = Append(rOutcomes, o)
       /\ rTexts' = Append(rTexts, fullText)
       /\ IF o = "ok"
          THEN /\ rPc' = "returned"
               /\ rResult' = "json"
               /\ rJson' = JSONparse(StripFences(fullText))
               /\ UNCHANGED <<attempt, lastError, contents>>
          ELSE IF signalAborted \/ AttemptError(o) = ErrAborted
          THEN /\ rPc' = "thrown"
               /\ rResult' = ErrAborted
               /\ UNCHANGED <<attempt, lastError, contents, rJson>>
          ELSE /\ lastError' = CaughtError(lastError, AttemptError(o))
               /\ UNCHANGED rJson
               /\ IF IsPermissionError(AttemptError(o))
                  THEN /\ rPc' = "thrown"
                       /\ rResult' = ErrPermission
                       /\ UNCHANGED <<attempt, contents>>
                  ELSE /\ rPc' = "top"
                       /\ attempt' = attempt + 1
                       /\ contents' = IF attempt < MAX_RETRIES - 1
                                      THEN Append(contents, CorrectiveMessage)
                                      ELSE contents
                       /\ UNCHANGED rResult
  /\ UNCHANGED <<signalAborted, rCalls, dispatchVars, sendVars, streamVars, overlapVars>>

\* The caller's controller is aborted while runAgent is suspended: at the
\* awaits of the prompt's files before the first attempt, or at the awaits
\* of an attempt.  From the catch of an attempt to line 302 of the next, and
\* to line 383 after the last, nothing is awaited.
SignalAbort ==
  /\ rPc = "inCall" \/ (rPc = "top" /\ attempt = 0)
  /\ ~signalAborted
  /\ signalAborted' = TRUE
  /\ UNCHANGED <<rPc, attempt, lastError, contents, rCalls, rOutcomes, rResult,
                 rJson, rTexts, dispatchVars, sendVars, streamVars, overlapVars>>

NextRetry == AttemptBegin \/ AttemptEnd \/ SignalAbort

SpecRetry == InitRetry /\ [][NextRetry]_vars

----------------------------------------------------------------------------
(* Claims about runAgent (SpecRetry) *)

\* C10: one runAgent call issues at most MAX_RETRIES (3) model-call
\* attempts, whatever the attempts end with: every call issued is the
\* attempt in flight or one of the ended attempts, and the loop is left
\* once three have ended.
C10_AtMostThreeAttempts ==
  /\ rCalls <= MAX_RETRIES
  /\ rCalls = Len(rOutcomes) + (IF rPc = "inCall" THEN 1 ELSE 0)
  /\ attempt <= MAX_RETRIES

\* Three attempts were made and all failed.
C10_Witness ==
  /\ rPc = "thrown"
  /\ rCalls = MAX_RETRIES
  /\ Len(rOutcomes) = MAX_RETRIES
  /\ \A i \in 1..Len(rOutcomes) : rOutcomes[i] \in {"empty", "badjson", "network"}
  /\ rResult = AttemptError(rOutcomes[MAX_RETRIES])

Recoverable == {"empty", "badjson", "network"}

\* C11 (as stated): whenever an attempt fails with a permission error,
\* runAgent fails at once with the fatal permission error and makes no
\* further attempt.
C11_PermissionAlwaysFatal ==
  \A i \in 1..Len(rOutcomes) :
    rOutcomes[i] = "permission" =>
      /\ i = Len(rOutcomes) /\ rCalls = i
      /\ rPc = "thrown" /\ rResult = ErrPermission

\* C11 (amended): whenever an attempt fails with a permission error, it is
\* the last attempt of the call, however many remain, and runAgent fails at
\* once: with the fatal permission error when the signal is not aborted,
\* with "Aborted" when it is.
C11_PermissionFatal ==
  \A i \in 1..Len(rOutcomes) :
    rOutcomes[i] = "permission" =>
      /\ i = Len(rOutcomes) /\ rCalls = i
      /\ rPc = "thrown"
      /\ rResult = (IF signalAborted THEN ErrAborted ELSE ErrPermission)

\* A permission error ended the call while attempts remained.
C11_Witness ==
  /\ rOutcomes # << >>
  /\ rOutcomes[Len(rOutcomes)] = "permission"
  /\ Len(rOutcomes) < MAX_RETRIES
  /\ ~signalAborted
  /\ rPc = "thrown" /\ rResult = ErrPermission

\* C12: when every attempt fails with a recoverable error and the signal is
\* never aborted, runAgent fails, with the error of the last attempt, and
\* resolves with no value.
C12_LastErrorPropagated ==
  ( /\ Len(rOutcomes) = MAX_RETRIES
    /\ \A i \in 1..Len(rOutcomes) : rOutcomes[i] \in Recoverable
    /\ ~signalAborted )
  => /\ rPc \in {"top", "thrown"}
     /\ rJson = << >>
     /\ lastError = AttemptError(rOutcomes[MAX_RETRIES])
     /\ rPc = "thrown" => rResult = AttemptError(rOutcomes[MAX_RETRIES])

\* Three recoverable failures, the last one of another kind than the
\* earlier ones, and the call has failed.
C12_Witness ==
  /\ rPc = "thrown"
  /\ ~signalAborted
  /\ Len(rOutcomes) = MAX_RETRIES
  /\ \A i \in 1..Len(rOutcomes) : rOutcomes[i] \in Recoverable
  /\ rOutcomes[1] # rOutcomes[MAX_RETRIES]
  /\ rOutcomes[2] # rOutcomes[MAX_RETRIES]
  /\ rResult = AttemptError(rOutcomes[MAX_RETRIES])

\* C13: runAgent resolves only with the value of a text that is not empty,
\* is valid JSON and is an object holding every required field.
C13_MalformedNeverReturned ==
  rPc = "returned" =>
    /\ rTexts[Len(rTexts)] # << >>
    /\ IsDef(rJson)
    /\ Val(rJson).kind = "object"
    /\ RequiredFields \subseteq Val(rJson).keys

\* The attempts whose failure was caught and retried: each of them, and
\* no attempt that ended the call, advanced the loop counter.
RetriedAttempts == 1..attempt

\* C30: the corrective 'not valid JSON' message is pushed onto contents for
\* the next attempt exactly after an attempt that failed with a malformed
\* response (empty text or a JSON parse failure), and after no other
\* failure.
C30_CorrectiveOnlyForMalformed ==
  Len(contents)
    = Cardinality({k \in RetriedAttempts :
                     k < MAX_RETRIES /\ rOutcomes[k] \in {"empty", "badjson"}})

----------------------------------------------------------------------------
(* Further claims about performFileActions (SpecDispatch) *)

\* C18: every action of a batch, executed, failed or skipped, has at least
\* one observation, so there are never fewer observations than actions.
C18_ObservationPerAction ==
  /\ \A j \in Iters : dTrace[j].nobs >= 1
  /\ Len(observations) >= Len(dActions)

\* C19: the batch is run in list order, one action at a time: the first
\* action sees the snapshot, every later one the store its predecessor
\* left, the store returned is the one the last action left, the
\* observations lie in the order of their actions, and the call as a whole
\* returns what the action-by-action run reached.
C19_ListOrder ==
  /\ Len(dTrace) = Len(dActions)
  /\ \A j \in Iters :
       /\ dTrace[j].before = (IF j = 1 THEN MapValues(MapFromFiles(currentFiles))
                              ELSE dTrace[j - 1].after)
       /\ \A k \in 1..Len(ObsOf(j)) :
            /\ ObsOf(j)[k].type \in {"", dActions[j].type}
            /\ IsDef(ObsOf(j)[k].path) => Val(ObsOf(j)[k].path) = dActions[j].path
            /\ IsDef(ObsOf(j)[k].source) => ObsOf(j)[k].source = dActions[j].source_path
  /\ Len(observations) = ObsBefore(Len(dActions) + 1)
  /\ dActions # << >> => MapValues(fileMap) = dTrace[Len(dTrace)].after
  /\ dPc = "returned" =>
       \E env \in [1..Len(dActions) -> Outcomes] :
         performFileActions(currentFiles, dActions, env)
           = [updatedFiles |-> MapValues(fileMap), observations |-> observations,
              observationAttachments |-> observationAttachments]

\* A write followed by a move of the file just written: the second action
\* worked on the store the first one left.
C19_Witness ==
  /\ dPc = "returned"
  /\ currentFiles = << >>
  /\ dActions = <<Act("write", PathTxt, Some(StrHi)),
                  ActSrc("move", PathPng, Undef, PathTxt)>>
  /\ Len(observations) = 2
  /\ Len(MapValues(fileMap)) = 1
  /\ MapValues(fileMap)[1].path = PathPng
  /\ MapValues(fileMap)[1].content = TextContent(StrHi)

\* The paths iteration j added to the store.
CreatedBy(j) ==
  {p \in Paths : FilesHave(dTrace[j].after, p) /\ ~FilesHave(dTrace[j].before, p)}

\* Whether iteration j is a move whose source was in the store.
MoveWithSource(j) ==
  /\ dActions[j].type = "move"
  /\ TruthyPath(dActions[j].source_path)
  /\ FilesHave(dTrace[j].before, Val(dActions[j].source_path))

\* C23 as stated: a path absent before an action and present after it is
\* the path of a write, a mkdir or a generative action, or the target of a
\* move that re-keyed an existing entry; an append never adds a path.
C23_AppendNeverCreates ==
  \A j \in Iters : \A p \in CreatedBy(j) :
    /\ p = dActions[j].path
    /\ \/ dActions[j].type \in {"write", "mkdir", "generate_image"}
       \/ MoveWithSource(j)

\* C23, amended: a path absent before an action and present after it is the
\* path of that action, and the action is a write with content, a mkdir, a
\* generate_image, a move whose source entry existed and now sits under
\* the new path, or an append with non-empty content, which creates a
\* text/plain file holding just that content; an append without content
\* and a move without an existing source add nothing.
C23_CreationSources ==
  \A j \in Iters : \A p \in CreatedBy(j) :
    /\ p = dActions[j].path
    /\ ~dTrace[j].skipped /\ ~dTrace[j].threw
    /\ \/ dActions[j].type = "write" /\ IsDef(dActions[j].content)
       \/ dActions[j].type \in {"mkdir", "generate_image"}
       \/ /\ MoveWithSource(j)
          /\ ~FilesHave(dTrace[j].after, Val(dActions[j].source_path))
          /\ FileAt(dTrace[j].after, p)
               = [FileAt(dTrace[j].before, Val(dActions[j].source_path))
                    EXCEPT !.path = p, !.name = BaseName(p)]
       \/ /\ dActions[j].type = "append"
          /\ Truthy(dActions[j].content)
          /\ FileAt(dTrace[j].after, p)
               = VFile(p, TextContent(Val(dActions[j].content)),
                       Utf8Len(Val(dActions[j].content)), "file", Some("text/plain"))

\* An append onto a missing path created the file, and a move re-keyed an
\* entry onto a path that was free.
C23_Witness ==
  /\ dPc = "returned"
  /\ Len(dActions) = 2
  /\ dActions[1].type = "append" /\ CreatedBy(1) = {dActions[1].path}
  /\ dActions[2].type = "move" /\ CreatedBy(2) = {dActions[2].path}

\* The paths iteration j removed from the store.
RemovedBy(j) ==
  {p \in Paths : FilesHave(dTrace[j].before, p) /\ ~FilesHave(dTrace[j].after, p)}

\* C24: a path present before an action is still present after it, unless
\* the action is an executed delete of that path or an executed move whose
\* source_path is that path and named an entry.
C24_OnlyDeleteAndMoveRemove ==
  \A j \in Iters : \A p \in RemovedBy(j) :
    /\ ~dTrace[j].skipped /\ ~dTrace[j].threw
    /\ \/ dActions[j].type = "delete" /\ dActions[j].path = p
       \/ MoveWithSource(j) /\ Val(dActions[j].source_path) = p

\* A move took its source path out of a store of two entries, overwriting
\* the entry at its target, and a delete then removed the target path.
C24_Witness ==
  /\ dPc = "returned"
  /\ Len(currentFiles) = 2
  /\ Len(dActions) = 2
  /\ MoveWithSource(1) /\ RemovedBy(1) = {Val(dActions[1].source_path)}
  /\ FilesHave(dTrace[1].after, dActions[1].path)
  /\ dActions[2].type = "delete" /\ RemovedBy(2) = {dActions[2].path}
  /\ fileMap = << >>

\* Whether iteration j executed a read.
ReadRan(j) == dActions[j].type = "read" /\ ~dTrace[j].skipped

\* Whether the read of iteration j found an entry that is not inlined as
\* text and is not above the ceiling.
ReadAttaches(j) ==
  /\ ReadRan(j)
  /\ FilesHave(dTrace[j].before, dActions[j].path)
  /\ LET f == FileAt(dTrace[j].before, dActions[j].path)
     IN /\ ~(isTextFile(f.name) /\ f.size <= 10000)
        /\ f.size <= 20 * 1024 * 1024

RECURSIVE AttachedUpTo(_)
\* The attachments the reads of iterations 1..j are to leave, in order.
AttachedUpTo(j) ==
  IF j = 0 THEN << >>
  ELSE AttachedUpTo(j - 1)
         \o (IF ReadAttaches(j) THEN <<FileAt(dTrace[j].before, dActions[j].path)>>
             ELSE << >>)

\* C31: an executed read leaves the store as it was; the attachment list
\* holds, in order, exactly the targets of the reads that found an entry
\* neither inlined as text (text-classified and of at most 10000 bytes) nor
\* above 20 MB; a read of an entry above 20 MB pushes the size-limit
\* failure, a read of a missing path the not-found failure.
C31_ReadAttachesOrFails ==
  /\ observationAttachments = AttachedUpTo(Len(dActions))
  /\ \A j \in Iters :
       ReadRan(j) =>
         /\ dTrace[j].after = dTrace[j].before
         /\ dTrace[j].nmut = 0
         /\ ~FilesHave(dTrace[j].before, dActions[j].path)
              => ObsOf(j) = <<Obs("Action READ '{path}' failed: Not found.",
                                  "", Some(dActions[j].path), Undef, Undef)>>
         /\ ( /\ FilesHave(dTrace[j].before, dActions[j].path)
              /\ FileAt(dTrace[j].before, dActions[j].path).size > 20 * 1024 * 1024 )
              => ObsOf(j) = <<Obs("Action READ '{path}' failed: File is too large.",
                                  "", Some(dActions[j].path), Undef, Undef)>>
         /\ ReadAttaches(j)
              => /\ Len(ObsOf(j)) = 1
                 /\ ObsOf(j)[1].tmpl
                      = "Action READ '{path}' success. Content attached for analysis.{text}"

\* A read of a text file too big to inline was attached, a read of an image
\* above the ceiling failed and attached nothing.
C31_Witness ==
  /\ dPc = "returned"
  /\ dActions = <<Act("read", PathTxt, Undef), Act("read", PathPng, Undef)>>
  /\ FilesHave(currentFiles, PathTxt) /\ FilesHave(currentFiles, PathPng)
  /\ FileAt(currentFiles, PathPng).size > 20 * 1024 * 1024
  /\ Len(observations) = 2
  /\ observationAttachments = <<FileAt(currentFiles, PathTxt)>>
  /\ observations[2].tmpl = "Action READ '{path}' failed: File is too large."

\* C32: after an executed move whose source s named an entry, the store has
\* an entry at the target p with the content and size the entry at s had,
\* has no entry at s unless s = p, holds no more entries than before, and
\* holds every entry at a path other than s and p exactly as before.
C32_MoveRekeys ==
  \A j \in Iters :
    (MoveWithSource(j) /\ ~dTrace[j].skipped) =>
      LET s == Val(dActions[j].source_path)
          p == dActions[j].path
          before == dTrace[j].before
          after == dTrace[j].after
      IN /\ FilesHave(after, p)
         /\ FileAt(after, p).content = FileAt(before, s).content
         /\ FileAt(after, p).size = FileAt(before, s).size
         /\ s # p => ~FilesHave(after, s)
         /\ Len(after) <= Len(before)
         /\ \A i \in 1..Len(before) :
              before[i].path \notin {s, p}
                => \E k \in 1..Len(after) : after[k] = before[i]
         /\ \A k \in 1..Len(after) :
              after[k].path \notin {s, p}
                => \E i \in 1..Len(before) : before[i] = after[k]

\* A store of three entries: a move of an entry onto itself kept all
\* three; a move of it onto an occupied target then left two, the third
\* untouched.
C32_Witness ==
  /\ dPc = "returned"
  /\ Len(currentFiles) = 3
  /\ dActions = <<ActSrc("move", PathTxt, Undef, PathTxt),
                  ActSrc("move", PathPng, Undef, PathTxt)>>
  /\ Len(dTrace[1].after) = 3
  /\ FilesHave(dTrace[1].after, PathTxt)
  /\ Len(dTrace[2].after) = 2
  /\ FileAt(dTrace[2].after, PathPng).content = FileAt(currentFiles, PathTxt).content
  /\ FilesHave(dTrace[2].after, PathMd)
  /\ ~FilesHave(dTrace[2].after, PathTxt)

\* C33: no step of performFileActions changes the array it was given or an
\* object held in it, whether the step is an action that completed, one
\* that threw or one that was skipped, so the store the caller holds stays
\* what it was until the caller takes the returned one.
C33_SnapshotUntouched == [][currentFiles' = currentFiles]_vars

\* The dispatch has not returned yet: an append onto an entry of the
\* snapshot has changed the map, an action has thrown, and the snapshot
\* still holds the entry as it was.
C33_Witness ==
  /\ dPc = "loop"
  /\ Len(dActions) = 2
  /\ currentFiles = <<VFile(PathTxt, TextContent(StrHi), 2, "file", Some("text/plain"))>>
  /\ dActions[1] = Act("append", PathTxt, Some(StrBang))
  /\ dTrace[2].threw
  /\ MapValues(fileMap) # currentFiles

\* Whether iteration j executed an edit_image or compose_image action that
\* names no source, on a store holding exactly one image.
SourcelessImageAction(j) ==
  /\ ~dTrace[j].skipped
  /\ dActions[j].type \in {"edit_image", "compose_image"}
  /\ ~IsDef(dActions[j].source_path)
  /\ ~IsDef(dActions[j].source_paths)
  /\ Cardinality({i \in 1..Len(dTrace[j].before) :
                    dTrace[j].before[i].mimeType = Some("image/png")}) = 1

\* C34: an edit_image or compose_image action without a source, run on a
\* store with exactly one image, records an observation (the warning about
\* the source chosen) and leaves an image under the action's path.
C34_SingleImageAutoSelected ==
  \A j \in Iters :
    SourcelessImageAction(j) =>
      /\ dTrace[j].nobs >= 1
      /\ FilesHave(dTrace[j].after, dActions[j].path)
      /\ FileAt(dTrace[j].after, dActions[j].path).mimeType = Some("image/png")

----------------------------------------------------------------------------
(* extractJSONString over a growing stream *)

MaxText == 6

\* The characters of a streamed text. ChKey stands for the characters the
\* regular expressions match before the group: "thought"\s*:\s*"
ChKey == "KEY"
ChBackslash == "\\"
ChQuote == "\""
ChN == "n"
ChO == "o"
\* Decoded control characters.
ChNewline == "NL"
ChReturn == "CR"
ChTab == "TAB"
\* ChPlan stands for the characters the array expression matches before the
\* bracket: "plan"\s*:\s*
ChPlan == "PLAN"
ChOpen == "["
ChClose == "]"

StreamChars ==
  {ChKey, ChBackslash, ChQuote, ChN, ChO, ChPlan, ChOpen, ChClose}

RECURSIVE ScanGroup(_, _)
\* ((?:[^"\\]|\\.)*) matched from index i: the index after the group.
ScanGroup(text, i) ==
  IF i > Len(text) \/ text[i] = ChQuote THEN i
  ELSE IF text[i] = ChBackslash
       THEN IF i + 1 <= Len(text) THEN ScanGroup(text, i + 2) ELSE i
       ELSE ScanGroup(text, i + 1)

RECURSIVE ReplaceAll(_, _, _)
\* .replace(/\\c/g, out): every backslash followed by c, left to right.
ReplaceAll(str, c, out) ==
  IF Len(str) = 0 THEN << >>
  ELSE IF Len(str) >= 2 /\ str[1] = ChBackslash /\ str[2] = c
       THEN <<out>> \o ReplaceAll(SubSeq(str, 3, Len(str)), c, out)
       ELSE <<str[1]>> \o ReplaceAll(Tail(str), c, out)

\* The chain of five replace calls, in the order of the source.
DecodeEscapes(group) ==
  ReplaceAll(
    ReplaceAll(
      ReplaceAll(
        ReplaceAll(
          ReplaceAll(group, ChN, ChNewline),
          "r", ChReturn),
        "t", ChTab),
      ChQuote, ChQuote),
    ChBackslash, ChBackslash)

\* Where the expressions start to match: the leftmost key, or 0.
KeyIndex(text) ==
  IF \E i \in 1..Len(text) : text[i] = ChKey
  THEN CHOOSE i \in 1..Len(text) :
         text[i] = ChKey /\ \A j \in 1..(i - 1) : text[j] # ChKey
  ELSE 0

\* extractJSONString(text, 'thought'): the complete expression first, then
\* the partial one; null is Undef.
extractJSONString(text) ==
  LET k == KeyIndex(text)
      e == ScanGroup(text, k + 1)
      group == SubSeq(text, k + 1, e - 1)
  IN IF k = 0 THEN Undef
     ELSE IF e <= Len(text) /\ text[e] = ChQuote
          THEN Some(DecodeEscapes(group))
          ELSE Some(DecodeEscapes(group))

\* Where the array expression starts to match: the leftmost key that the
\* opening bracket follows, or 0.
PlanIndex(text) ==
  LET starts == {i \in 1..(Len(text) - 1) :
                   text[i] = ChPlan /\ text[i + 1] = ChOpen}
  IN IF starts = {} THEN 0
     ELSE CHOOSE i \in starts : \A j \in starts : i <= j

\* (.*?)(?:\]|$) matched from index i: the group runs to the first closing
\* bracket, or to the end of the text.
ArrayContent(text, i) ==
  LET closes == {j \in i..Len(text) : text[j] = ChClose}
      e == IF closes = {} THEN Len(text) + 1
           ELSE CHOOSE j \in closes : \A k \in closes : j <= k
  IN SubSeq(text, i, e - 1)

RECURSIVE QuotedItems(_, _)
\* content.match(/"((?:[^"\\]|\\.)*)"/g) from index i: the matches from left
\* to right, each without its quotes; a quote that opens no complete match
\* is passed over.
QuotedItems(content, i) ==
  LET quotes == {q \in i..Len(content) : content[q] = ChQuote}
  IN IF quotes = {} THEN << >>
     ELSE LET q == CHOOSE x \in quotes : \A y \in quotes : x <= y
              e == ScanGroup(content, q + 1)
          IN IF e <= Len(content) /\ content[e] = ChQuote
             THEN <<SubSeq(content, q + 1, e - 1)>> \o QuotedItems(content, e + 1)
             ELSE QuotedItems(content, q + 1)

\* extractJSONArray(text, 'plan'): the decoded items, or [].
extractJSONArray(text) ==
  LET p == PlanIndex(text)
      items == QuotedItems(ArrayContent(text, p + 2), 1)
  IN IF p = 0 THEN << >>
     ELSE [k \in 1..Len(items) |-> DecodeEscapes(items[k])]

InitStream ==
  /\ sPc = "stream"
  /\ streamText = << >>
  /\ thoughts = << >>
  /\ plans = << >>
  /\ DispatchIdle /\ SendIdle /\ RetryIdle /\ OverlapIdle

\* One chunk of the stream arrives: lines 318-343.
StreamChunk ==
  /\ sPc = "stream"
  /\ Len(streamText) < MaxText
  /\ \E c \in StreamChars :
       /\ c = ChKey => KeyIndex(streamText) = 0
       /\ streamText' = Append(streamText, c)
       /\ c = ChPlan => \A i \in 1..Len(streamText) : streamText[i] # ChPlan
       /\ thoughts' = Append(thoughts, extractJSONString(streamText'))
       /\ plans' = Append(plans, extractJSONArray(streamText'))
  /\ UNCHANGED <<sPc, dispatchVars, sendVars, retryVars, overlapVars>>

NextStream == StreamChunk

SpecStream == InitStream /\ [][NextStream]_vars

----------------------------------------------------------------------------
(* Claims about extractJSONString (SpecStream) *)

\* The text after i chunks.
TextAt(i) == SubSeq(streamText, 1, i)

\* The opening quote of the field has appeared in the text, its closing
\* quote has not.
Unclosed(text) ==
  /\ KeyIndex(text) # 0
  /\ LET e == ScanGroup(text, KeyIndex(text) + 1)
     IN ~(e <= Len(text) /\ text[e] = ChQuote)

RECURSIVE JsonUnescape(_)
\* What the escapes of a JSON string stand for, escape by escape; an escape
\* cut off by the end of the text is not taken yet.
JsonUnescape(raw) ==
  IF Len(raw) = 0 THEN << >>
  ELSE IF raw[1] = ChBackslash
       THEN IF Len(raw) = 1 THEN << >>
            ELSE (CASE raw[2] = ChN -> <<ChNewline>>
                    [] raw[2] = ChQuote -> <<ChQuote>>
                    [] raw[2] = ChBackslash -> <<ChBackslash>>
                    [] OTHER -> <<raw[1], raw[2]>>)
                 \o JsonUnescape(SubSeq(raw, 3, Len(raw)))
       ELSE <<raw[1]>> \o JsonUnescape(Tail(raw))

IsPrefix(a, b) == Len(a) <= Len(b) /\ SubSeq(b, 1, Len(a)) = a

\* The value shown grows by prefixes: once the field has opened, every
\* later value has every earlier one as a prefix.
PrefixGrowth ==
  \A i \in 1..Len(thoughts) : \A j \in i..Len(thoughts) :
    Unclosed(TextAt(i)) =>
      /\ IsDef(thoughts[i]) /\ IsDef(thoughts[j])
      /\ IsPrefix(Val(thoughts[i]), Val(thoughts[j]))

\* C20: while the field is open, extractJSONString returns the text since
\* the opening quote with its escapes decoded, and the values returned as
\* the text grows have every earlier value as a prefix.
C20_PartialDecodedMonotonic ==
  /\ \A i \in 1..Len(thoughts) :
       Unclosed(TextAt(i)) =>
         thoughts[i]
           = Some(JsonUnescape(SubSeq(TextAt(i), KeyIndex(TextAt(i)) + 1, i)))
  /\ PrefixGrowth

RECURSIVE CompleteStrings(_, _)
\* The complete strings of an array read from index i of the text, string
\* by string: a closing bracket outside a string ends the array, a bracket
\* inside a string belongs to the string, and a string whose closing quote
\* has not arrived is not taken.
CompleteStrings(text, i) ==
  IF i > Len(text) \/ text[i] = ChClose THEN << >>
  ELSE IF text[i] = ChQuote
       THEN LET e == ScanGroup(text, i + 1)
            IN IF e <= Len(text) /\ text[e] = ChQuote
               THEN <<DecodeEscapes(SubSeq(text, i + 1, e - 1))>>
                      \o CompleteStrings(text, e + 1)
               ELSE << >>
       ELSE CompleteStrings(text, i + 1)

\* C21: for a text that holds the field's opening bracket, extractJSONArray
\* returns the complete quoted strings that follow the bracket, whether or
\* not the closing bracket has arrived; without the bracket it returns the
\* empty sequence.
C21_CompleteStringsAfterBracket ==
  \A i \in 1..Len(plans) :
    LET text == TextAt(i)
        p == PlanIndex(text)
    IN plans[i] = IF p = 0 THEN << >> ELSE CompleteStrings(text, p + 2)

----------------------------------------------------------------------------
(* Several sends, handleStop and handleDeleteFile on one conversation *)

MaxSends == 2
MaxWorkTurns == 1

\* A message with its id: the sequence and turn that made it.
Entry(p, t, kind, m) == [id |-> [seq |-> p, turn |-> t, kind |-> kind], m |-> m]

\* The messages of a list of entries.
Plain(entries) == [i \in 1..Len(entries) |-> entries[i].m]

\* A response whose batch awaits the network.
RespWriteSearch ==
  Resp(Thought, Some(<<Act("write", PathTxt, Some(StrHi)),
                       Act("google_search", PathTxt, Some(StrHi))>>), Undef)

\* What the model answers in turn t of a sequence.
OverlapResponses(t) ==
  IF t > MaxWorkTurns THEN {RespFinal} ELSE {RespWriteSearch, RespFinal}

\* How the model call of turn t ends.
CallOutcomes(t) == IF t > MaxWorkTurns THEN {"ok"} ELSE {"ok", "network", "permission"}

\* A sequence that never sees its signal aborted (the mutant of C14).
SignalAbortedNever(s) == FALSE

\* controller.signal.aborted / signal?.aborted
SignalAborted(s) == s.aborted

\* A catch that takes no error for the cancellation (the mutant of C15).
IsAbortErrorNever(e) == FALSE

\* (error as Error).message !== "Aborted"
IsAbortError(e) == e = ErrAborted

\* The locals of a handleSendMessage call at line 269.
NewSeq(cfs, history) ==
  [pc |-> "top", aborted |-> FALSE, currentFilesState |-> cfs,
   conversationHistory |-> history, turn |-> 0, actionRetryMap |-> << >>,
   attempt |-> 0, endCause |-> ""]

\* generateContentStream is called.
IssueCall(s) == [s EXCEPT !.pc = "inCall"]

\* Lines 272-291 and runAgent up to its first await: the placeholder is
\* pushed, and the call is issued unless the prompt has a File to read.
TurnStart(s, p) ==
  LET t == s.turn + 1
      h == Append(s.conversationHistory, Entry(p, t, "model", PlaceholderMessage))
      s1 == [s EXCEPT !.turn = t, !.conversationHistory = h, !.attempt = 0]
  IN IF PromptResolvesFile(Plain(h)) THEN [s1 EXCEPT !.pc = "buildPrompt"]
     ELSE IssueCall(s1)

\* The sequence is left: its record after the catch and finally, with
\* what ended it ("final", "cap", or the message of the error caught).
Ended(s, cause) == [s EXCEPT !.pc = "done", !.endCause = cause]

\* Error e reaches the catch of handleSendMessage: lines 366-372.
Throws(p, s, e) ==
  /\ isProcessing' = FALSE
  /\ IF IsAbortError(e)
     THEN /\ seqs' = [seqs EXCEPT ![p] = Ended(s, e)]
          /\ UNCHANGED messages
     ELSE /\ seqs' = [seqs EXCEPT ![p] = Ended(s, e)]
          /\ messages' = Append(messages, Entry(p, s.turn, "error", ErrorMessage(e)))

\* The variables of the one-sequence model, unused here.
sendLocals == <<pc, aborted, currentFilesState, conversationHistory, turn,
                actionRetryMap, prompts, endCause, dispatches, varied>>

InitOverlap ==
  /\ SendIdle /\ DispatchIdle /\ RetryIdle /\ StreamIdle
  /\ seqs = << >>

\* handleSendMessage up to its first await.
OSendMessage ==
  /\ Len(seqs) < MaxSends
  /\ \E newFiles \in Uploads :
       LET p == Len(seqs) + 1
           prior == IF abortControllerRef = "controller"
                    THEN [seqs EXCEPT ![Len(seqs)].aborted = TRUE]
                    ELSE seqs
           cfs == IF Len(newFiles) > 0 THEN MapValues(MapFromFiles(files \o newFiles))
                  ELSE files
           initialUserMessage ==
             Msg("user", Content(UserText, << >>, << >>),
                 IF Len(newFiles) > 0 THEN Some(newFiles) ELSE Undef,
                 Undef, FALSE, FALSE)
           s == TurnStart(NewSeq(cfs, Append(messages, Entry(p, 0, "user", initialUserMessage))), p)
       IN /\ seqs' = Append(prior, s)
          /\ files' = cfs
          /\ messages' = s.conversationHistory
  /\ isProcessing' = TRUE
  /\ abortControllerRef' = "controller"
  /\ UNCHANGED <<sendLocals, dispatchVars, retryVars, streamVars>>

\* The attachments of the prompt are read; then line 302 and the call.
OPromptBuilt ==
  /\ \E p \in 1..Len(seqs), o \in Outcomes :
       LET s == seqs[p] IN
       /\ s.pc = "buildPrompt"
       /\ IF o = "fail" THEN Throws(p, s, "FileReader error")
          ELSE IF SignalAborted(s) THEN Throws(p, s, ErrAborted)
          ELSE /\ seqs' = [seqs EXCEPT ![p] = IssueCall(s)]
               /\ UNCHANGED <<messages, isProcessing>>
  /\ UNCHANGED <<files, abortControllerRef, sendLocals, dispatchVars, retryVars,
                 streamVars>>

\* setMessages(prev => ...) of lines 307-312: the entry with the id of this
\* turn's model message gets the response, if prev still holds it.
PublishById(msgs, id, r) ==
  [i \in 1..Len(msgs) |->
     IF msgs[i].id = id THEN [msgs[i] EXCEPT !.m.agentResponse = Some(r)] ELSE msgs[i]]

\* The model call of a sequence ends: the rest of runAgent's attempt
\* (lines 317-382), and lines 306-320 and 350-364 of handleSendMessage.
OCallEnds ==
  /\ \E p \in 1..Len(seqs) : \E o \in CallOutcomes(seqs[p].turn) :
       LET s == seqs[p]
           n == Len(s.conversationHistory)
       IN
       /\ s.pc = "inCall"
       /\ IF o # "ok"
          THEN \* the catch of the retry loop
               IF SignalAborted(s) THEN Throws(p, s, ErrAborted)
               ELSE IF IsPermissionError(AttemptError(o)) THEN Throws(p, s, ErrPermission)
               ELSE IF AttemptAllowed(s.attempt + 1)
               THEN /\ seqs' = [seqs EXCEPT ![p] = IssueCall([s EXCEPT !.attempt = @ + 1])]
                    /\ UNCHANGED <<messages, isProcessing>>
               ELSE Throws(p, s, AttemptError(o))
          ELSE IF SignalAborted(s) THEN Throws(p, s, ErrAborted)
          ELSE \E r \in OverlapResponses(s.turn) :
                 LET h == [s.conversationHistory EXCEPT ![n].m.agentResponse = Some(r)]
                     s1 == [s EXCEPT !.conversationHistory = h]
                     published == PublishById(messages, s.conversationHistory[n].id, r)
                 IN IF IsFinal(r)
                    THEN /\ seqs' = [seqs EXCEPT ![p] = Ended(s1, "final")]
                         /\ messages' = published
                         /\ isProcessing' = FALSE
                    ELSE IF IsDef(r.actions) /\ Len(Val(r.actions)) > 0
                    THEN /\ seqs' = [seqs EXCEPT ![p] = [s1 EXCEPT !.pc = "dispatch"]]
                         /\ messages' = published
                         /\ UNCHANGED isProcessing
                    ELSE LET observationText ==
                               IF Truthy(r.thought) THEN ContinueText ELSE NoActionsText
                             h2 == Append(h, Entry(p, s.turn, "obs",
                                     ObservationMessage(
                                       Content(observationText, << >>, << >>), Undef)))
                         IN /\ seqs' = [seqs EXCEPT ![p] =
                                          [s1 EXCEPT !.conversationHistory = h2,
                                                     !.pc = "sleep"]]
                            /\ messages' = h2
                            /\ UNCHANGED isProcessing
  /\ UNCHANGED <<files, abortControllerRef, sendLocals, dispatchVars, retryVars,
                 streamVars>>

\* performFileActions resolves: lines 321-349 and 354-364.
ODispatchDone ==
  /\ \E p \in 1..Len(seqs) :
       LET s == seqs[p]
           n == Len(s.conversationHistory)
       IN
       /\ s.pc = "dispatch"
       /\ LET actions == Val(Val(s.conversationHistory[n].m.agentResponse).actions)
          IN \E env \in [1..Len(actions) -> Outcomes] :
               LET result == performFileActions(s.currentFilesState, actions, env)
                   verified == VerifyActions(actions, result.updatedFiles,
                                             s.actionRetryMap, << >>)
                   h == Append(s.conversationHistory,
                          Entry(p, s.turn, "obs",
                            ObservationMessage(
                              Content(ObservationText, result.observations,
                                      verified.retryInstructions),
                              IF Len(result.observationAttachments) > 0
                              THEN Some(result.observationAttachments) ELSE Undef)))
               IN /\ seqs' = [seqs EXCEPT ![p] =
                                [s EXCEPT !.actionRetryMap = verified.actionRetryMap,
                                          !.currentFilesState = result.updatedFiles,
                                          !.conversationHistory = h,
                                          !.pc = "sleep"]]
                  /\ files' = result.updatedFiles
                  /\ messages' = h
  /\ UNCHANGED <<isProcessing, abortControllerRef, sendLocals, dispatchVars, retryVars,
                 streamVars>>

\* The 400 ms sleep of a sequence is over: lines 270-291.
OWake ==
  /\ \E p \in 1..Len(seqs) :
       LET s == seqs[p] IN
       /\ s.pc = "sleep"
       /\ IF ~LoopContinues(s.turn)
          THEN /\ seqs' = [seqs EXCEPT ![p] = Ended(s, "cap")]
               /\ isProcessing' = FALSE
               /\ UNCHANGED messages
          ELSE IF SignalAborted(s) THEN Throws(p, s, ErrAborted)
          ELSE /\ seqs' = [seqs EXCEPT ![p] = TurnStart(s, p)]
               /\ messages' = seqs'[p].conversationHistory
               /\ UNCHANGED isProcessing
  /\ UNCHANGED <<files, abortControllerRef, sendLocals, dispatchVars, retryVars,
                 streamVars>>

\* handleStop
OStop ==
  /\ abortControllerRef # "null"
  /\ seqs' = [seqs EXCEPT ![Len(seqs)].aborted = TRUE]
  /\ abortControllerRef' = "null"
  /\ isProcessing' = FALSE
  /\ UNCHANGED <<files, messages, sendLocals, dispatchVars, retryVars, streamVars>>

RECURSIVE WithoutPath(_, _)
\* prev.filter(f => f.path !== path)
WithoutPath(fs, path) ==
  IF Len(fs) = 0 THEN << >>
  ELSE IF Head(fs).path = path THEN WithoutPath(Tail(fs), path)
  ELSE <<Head(fs)>> \o WithoutPath(Tail(fs), path)

\* handleDeleteFile(path), for a file of the store.
ODeleteFile ==
  /\ \E i \in 1..Len(files) : files' = WithoutPath(files, files[i].path)
  /\ UNCHANGED <<messages, isProcessing, abortControllerRef, seqs, sendLocals,
                 dispatchVars, retryVars, streamVars>>

NextOverlap ==
  OSendMessage \/ OPromptBuilt \/ OCallEnds \/ ODispatchDone \/ OWake \/ OStop
    \/ ODeleteFile

SpecOverlap == InitOverlap /\ [][NextOverlap]_vars

----------------------------------------------------------------------------
(* Claims about cancellation and overlapping sends (SpecOverlap) *)

\* Whether this step issues a model call for sequence p.
CallIssued(p) ==
  /\ seqs'[p].pc = "inCall"
  /\ seqs[p].pc # "inCall" \/ seqs'[p].attempt # seqs[p].attempt

\* Whether every file of fs is in gs as it is.
Retained(fs, gs) == \A i \in 1..Len(fs) : \E j \in 1..Len(gs) : gs[j] = fs[i]

\* C14: a sequence whose signal is aborted starts no turn and issues no
\* model call, first attempt or retry; the step that aborts it keeps every
\* file of the store, and what the aborted sequence still does, apart from
\* publishing the dispatch it had in flight, leaves the store as it is.
C14_NoCallAfterAbort ==
  [][\A p \in 1..Len(seqs) :
       /\ seqs[p].aborted =>
            /\ seqs'[p].turn = seqs[p].turn
            /\ ~CallIssued(p)
       /\ (~seqs[p].aborted /\ seqs'[p].aborted) => Retained(files, files')
       /\ (seqs[p].aborted /\ seqs'[p] # seqs[p] /\ seqs[p].pc # "dispatch")
            => files' = files]_vars

\* A sequence wrote a file, was aborted and ended with the cancellation;
\* the file is in the store.
C14_Witness ==
  \E p \in 1..Len(seqs) :
    /\ seqs[p].aborted /\ seqs[p].pc = "done" /\ seqs[p].endCause = ErrAborted
    /\ FilesHave(seqs[p].currentFilesState, PathTxt)
    /\ FilesHave(files, PathTxt)

\* The error entries a sequence has in the message list.
ErrorEntriesOf(p) ==
  {i \in 1..Len(messages) : messages[i].m.isError /\ messages[i].id.seq = p}

\* C15: a sequence ended by the cancellation has no error entry in the
\* conversation; a sequence has an error entry only when it was ended by an
\* error other than the cancellation.
C15_NoErrorEntryOnCancel ==
  \A p \in 1..Len(seqs) :
    /\ seqs[p].endCause = ErrAborted => ErrorEntriesOf(p) = {}
    /\ ErrorEntriesOf(p) # {} =>
         /\ seqs[p].pc = "done"
         /\ seqs[p].endCause \notin {ErrAborted, "final", "cap", ""}

\* A stopped sequence has ended with the cancellation and the conversation
\* holds its messages and no error entry.
C15_Witness ==
  \E p \in 1..Len(seqs) :
    /\ seqs[p].aborted /\ seqs[p].pc = "done" /\ seqs[p].endCause = ErrAborted
    /\ \E i \in 1..Len(messages) : messages[i].id.seq = p
    /\ \A i \in 1..Len(messages) : ~messages[i].m.isError

\* C16: once a newer send has started, an earlier sequence issues no model
\* call, starts no dispatch and publishes nothing to the message list or
\* the file store.
C16_SupersededSilent ==
  [][\A p \in 1..(Len(seqs) - 1) :
       seqs'[p] # seqs[p] =>
         /\ ~CallIssued(p)
         /\ seqs'[p].pc # "dispatch"
         /\ messages' = messages
         /\ files' = files]_vars

\* C17: only the turn controller changes the file store, and when a
\* sequence swaps in the result of a dispatch the store is still the
\* snapshot that dispatch started from.
C17_SingleWriter ==
  [][/\ files' # files => seqs' # seqs
     /\ \A p \in 1..Len(seqs) :
          (seqs[p].pc = "dispatch" /\ seqs'[p].pc = "sleep")
            => files = seqs[p].currentFilesState]_vars

\* C37: once the signal of a sequence is aborted, the runAgent call it is
\* awaiting, whether it is still building its prompt or has a model call
\* in flight, issues no further attempt and can fail only with "Aborted".
C37_AbortedFailsAsAborted ==
  [][\A p \in 1..Len(seqs) :
       (seqs[p].aborted /\ seqs[p].pc \in {"buildPrompt", "inCall"})
         => /\ seqs'[p].attempt = seqs[p].attempt
            /\ seqs'[p].pc = "done" => seqs'[p].endCause = ErrAborted]_vars

\* C35: while a sequence is in flight whose signal is not aborted, the
\* flag isProcessing is true; the end of an older sequence, superseded by a
\* newer send, does not clear it.
C35_ProcessingWhileInFlight ==
  (\E p \in 1..Len(seqs) : seqs[p].pc # "done" /\ ~seqs[p].aborted) => isProcessing

----------------------------------------------------------------------------
(* The file store over several sends with uploads and several batches *)

MaxOps == 3

\* What handleFileUpload returns: nothing, one image, or two files of the
\* same name.
UploadX == VFile(PathTxt, FileHandle(<<"x">>), 1, "file", Some("text/plain"))
UploadY == VFile(PathTxt, FileHandle(<<"y">>), 2, "file", Some("text/plain"))
UploadPng == VFile(PathPng, FileHandle(<<"b">>), 4, "file", Some("image/png"))
StoreUploads == { << >>, <<UploadPng>>, <<UploadX, UploadY>> }

\* The actions the batches of these sends are made of.
StoreActions ==
  { Act("write", PathTxt, Some(StrHi)), Act("write", PathTxt, Some(StrAcute)),
    Act("write", PathTxt, Undef), Act("delete", PathTxt, Undef),
    ActSrc("move", PathPng, Undef, PathTxt), ActSrc("move", PathTxt, Undef, PathPng),
    Act("mkdir", PathPng, Undef),
    Action("compose_image", PathPng, Some(StrHi), Undef, Some(<<PathPng, PathTxt>>), Undef, Undef),
    Action("compose_image", PathPng, Some(StrHi), Undef, Some(<<PathTxt, PathPng>>), Undef, Undef),
    Action("compose_image", PathPng, Some(StrHi), Undef,
           Some(<<PathPng, PathPng, PathTxt>>), Undef, Undef) }

StoreBatches == UNION {[1..n -> StoreActions] : n \in 1..MaxBatch}

\* The sends and dispatches so far: each left one user entry in messages.
Ops == Cardinality({i \in 1..Len(messages) : messages[i].role = "user"})

InitStore == SendIdle /\ DispatchIdle /\ RetryIdle /\ StreamIdle /\ OverlapIdle

\* handleSendMessage up to line 267: the upload is merged into the store.
\* No performFileActions call is active.
SendUpload ==
  /\ Ops < MaxOps
  /\ \E newFiles \in StoreUploads :
       LET fileMapOfSend == MapFromFiles(files \o newFiles)
           initialUserMessage ==
             Msg("user", Content(UserText, << >>, << >>),
                 IF Len(newFiles) > 0 THEN Some(newFiles) ELSE Undef,
                 Undef, FALSE, FALSE)
       IN /\ files' = IF Len(newFiles) > 0 THEN MapValues(fileMapOfSend) ELSE files
          /\ messages' = Append(messages, initialUserMessage)
  /\ actionRetryMap' = << >>
  /\ dPc' = "idle"
  /\ currentFiles' = << >> /\ dActions' = << >> /\ fileMap' = << >>
  /\ observations' = << >> /\ observationAttachments' = << >>
  /\ processedSignatures' = {} /\ dTrace' = << >>
  /\ UNCHANGED <<pc, isProcessing, abortControllerRef, aborted, currentFilesState,
                 conversationHistory, turn, prompts, endCause, dispatches, varied,
                 retryVars, streamVars, overlapVars>>

\* A turn of the send whose response carries a batch: lines 314-363.
TurnDispatch ==
  /\ messages # << >>
  /\ Ops < MaxOps
  /\ \E batch \in StoreBatches : \E env \in [1..Len(batch) -> Outcomes] :
       LET st == DispatchAll(DispatchState(files), batch, env)
           updatedFiles == MapValues(st.fileMap)
           verified == VerifyActions(batch, updatedFiles, actionRetryMap, << >>)
           modelMessage ==
             Msg("model", Content("", << >>, << >>), Undef,
                 Some(Resp(Thought, Some(batch), Undef)), FALSE, FALSE)
           observationMessage ==
             ObservationMessage(
               Content(ObservationText, st.observations, verified.retryInstructions),
               IF Len(st.observationAttachments) > 0
               THEN Some(st.observationAttachments) ELSE Undef)
       IN /\ currentFiles' = files
          /\ dActions' = batch
          /\ fileMap' = st.fileMap
          /\ observations' = st.observations
          /\ observationAttachments' = st.observationAttachments
          /\ processedSignatures' = st.processedSignatures
          /\ dTrace' = st.log
          /\ actionRetryMap' = verified.actionRetryMap
          /\ files' = updatedFiles
          /\ messages' = messages \o <<modelMessage, observationMessage>>
  /\ dPc' = "returned"
  /\ UNCHANGED <<pc, isProcessing, abortControllerRef, aborted, currentFilesState,
                 conversationHistory, turn, prompts, endCause, dispatches, varied,
                 retryVars, streamVars, overlapVars>>

NextStore == SendUpload \/ TurnDispatch

SpecStore == InitStore /\ [][NextStore]_vars

----------------------------------------------------------------------------
(* Claims about the store (SpecStore) *)

UniquePaths(fs) == \A i \in 1..Len(fs), j \in 1..Len(fs) : fs[i].path = fs[j].path => i = j

\* The last entry of a list of files with path p.
LastAt(fs, p) == fs[CHOOSE i \in 1..Len(fs) :
                      fs[i].path = p /\ \A j \in (i + 1)..Len(fs) : fs[j].path # p]

\* Whether action k of the last batch names path p.
Touches(k, p) == dActions[k].path = p \/ dActions[k].source_path = Some(p)

\* C25: after any sequence of uploads and batches the store holds at most
\* one entry per path and every entry is keyed by its own path; a path
\* uploaded holds the last file uploaded with that path, replacing what the
\* store held, and a path written by several writes of a batch, and by
\* nothing after them, holds the content of the last of them.
C25_UniquePathsLastWriterWins ==
  /\ UniquePaths(files)
  /\ \A i \in 1..Len(fileMap) :
       /\ fileMap[i].k = fileMap[i].v.path
       /\ \A j \in 1..Len(fileMap) : fileMap[i].k = fileMap[j].k => i = j
  /\ (dPc = "idle" /\ IsDef(messages[Len(messages)].attachments)) =>
       LET newFiles == Val(messages[Len(messages)].attachments)
       IN \A p \in Paths :
            FilesHave(newFiles, p)
              => FilesHave(files, p) /\ FileAt(files, p) = LastAt(newFiles, p)
  /\ dPc = "returned" =>
       /\ files = MapValues(fileMap)
       /\ \A p \in Paths :
            LET writers == {j \in Iters : WriteRan(j) /\ dActions[j].path = p}
            IN \A j \in writers :
                 (\A k \in Iters : k > j => ~Touches(k, p) \/ dTrace[k].skipped)
                   => /\ FilesHave(files, p)
                      /\ FileAt(files, p).content = TextContent(Val(dActions[j].content))

\* Two files of one name were uploaded, the store kept the second; a batch
\* then wrote that path twice, and the store holds the second write.
C25_Witness ==
  /\ dPc = "returned"
  /\ messages[1].attachments = Some(<<UploadX, UploadY>>)
  /\ currentFiles = <<UploadY>>
  /\ dActions = <<Act("write", PathTxt, Some(StrHi)), Act("write", PathTxt, Some(StrAcute))>>
  /\ files = <<VFile(PathTxt, TextContent(StrAcute), 2, "file", Some("text/plain"))>>

\* The signature of an action with its source_paths taken as a set.
SetSignature(a) ==
  [type |-> a.type, path |-> a.path, content |-> a.content,
   source_path |-> a.source_path,
   source_paths |-> IF IsDef(a.source_paths)
                    THEN Some({Val(a.source_paths)[i] : i \in 1..Len(Val(a.source_paths))})
                    ELSE Undef,
   start_time |-> a.start_time, end_time |-> a.end_time]

\* C26 as stated: an action of a batch is skipped exactly when an earlier
\* action of the batch agrees with it on type, path, content, source_path,
\* the set of its source_paths, start_time and end_time.
C26_SetSignatureSkipped ==
  \A j \in Iters :
    dTrace[j].skipped
      <=> \E i \in 1..(j - 1) : SetSignature(dActions[i]) = SetSignature(dActions[j])

\* C26, amended: an action of a batch is skipped exactly when an earlier
\* action of the same batch has the same signature over type, path,
\* content, source_path, the sorted list of its source_paths (their order
\* does not count, their repetitions do), start_time and end_time; a
\* skipped action pushes the one warning observation and leaves the store
\* as it was; the signatures seen are those of this batch only, so the
\* first action of a batch is executed whatever earlier turns ran.
C26_SortedSignatureSkipped ==
  /\ \A j \in Iters :
       /\ dTrace[j].skipped
            <=> \E i \in 1..(j - 1) : Signature(dActions[i]) = Signature(dActions[j])
       /\ dTrace[j].skipped
            => /\ ObsOf(j) = <<SkippedObs(dActions[j])>>
               /\ dTrace[j].before = dTrace[j].after
               /\ dTrace[j].nmut = 0
  /\ processedSignatures = {Signature(dActions[j]) : j \in Iters}

\* The turn before wrote a file; this turn's batch holds the same write
\* twice: the first is executed again, the second is skipped.
C26_Witness ==
  /\ dPc = "returned"
  /\ Len(messages) >= 5
  /\ messages[Len(messages) - 3].agentResponse
       = Some(Resp(Thought, Some(<<Act("write", PathTxt, Some(StrHi))>>), Undef))
  /\ dActions = <<Act("write", PathTxt, Some(StrHi)), Act("write", PathTxt, Some(StrHi))>>
  /\ ~dTrace[1].skipped /\ dTrace[1].nmut = 1
  /\ dTrace[2].skipped

\* The entries of messages that the running send appended after its
\* initial user message.
SendEntries ==
  {i \in 1..Len(messages) :
     \A v \in i..Len(messages) : messages[v].role = "model" \/ messages[v].isObservation}

\* The 'retry this action' directives of entry i for a key.
RetryDirectives(i, type, path) ==
  LET instr == messages[i].content.retryInstructions
  IN {k \in 1..Len(instr) :
        instr[k].kind = "retry" /\ instr[k].type = type /\ instr[k].path = path}

\* How many 'retry this action' directives the running send has issued
\* for a key.
DirectiveCount(type, path) ==
  Cardinality({ik \in SendEntries \X (1..MaxBatch) :
                 ik[2] \in RetryDirectives(ik[1], type, path)})

\* The write and mkdir actions of the last batch whose path is not in the
\* store the batch left.
FailedVerifications ==
  SelectSeq(dActions,
            LAMBDA a : a.type \in {"write", "mkdir"} /\ ~FilesHave(files, a.path))

\* Counters are keyed by (type, path) of write and mkdir actions, lie in
\* 1..MAX_RETRY_COUNT, and equal the number of 'retry this action'
\* directives the send has issued for the key.
CountersMatchDirectives ==
  /\ \A e \in 1..Len(actionRetryMap) :
       /\ actionRetryMap[e].k.type \in {"write", "mkdir"}
       /\ actionRetryMap[e].v \in 1..MAX_RETRY_COUNT
       /\ actionRetryMap[e].v
            = DirectiveCount(actionRetryMap[e].k.type, actionRetryMap[e].k.path)
  /\ \A type \in {"read", "write", "append", "delete", "move", "mkdir", "compose_image"} :
       \A path \in Paths :
         DirectiveCount(type, path) > 0
           => MapHas(actionRetryMap, [type |-> type, path |-> path])

\* C27 as stated: the counters match the directives, and a turn issues at
\* most one 'retry this action' directive per key.
C27_OneDirectivePerTurn ==
  /\ CountersMatchDirectives
  /\ \A i \in SendEntries : \A type \in {"write", "mkdir"} : \A path \in Paths :
       Cardinality(RetryDirectives(i, type, path)) <= 1

\* C27, amended: the counters match the directives, and a turn issues one
\* directive for every write or mkdir action of its batch whose path is
\* absent from the store after the dispatch, in the order of the actions
\* and also for an action that was skipped as a duplicate, so a key can
\* get several directives in one turn; a directive is 'retry this action'
\* with the new counter while the counter is below MAX_RETRY_COUNT, and the
\* final notice after that.
C27_DirectivePerFailedAction ==
  /\ CountersMatchDirectives
  /\ dPc = "returned" =>
       LET instr == messages[Len(messages)].content.retryInstructions
       IN /\ Len(instr) = Len(FailedVerifications)
          /\ \A k \in 1..Len(instr) :
               /\ instr[k].type = FailedVerifications[k].type
               /\ instr[k].path = FailedVerifications[k].path
               /\ instr[k].kind \in {"retry", "final"}
               /\ instr[k].kind = "retry" => instr[k].attempt \in 1..MAX_RETRY_COUNT
               /\ instr[k].kind = "final" =>
                    MapGet(actionRetryMap,
                           [type |-> instr[k].type, path |-> instr[k].path])
                      = MAX_RETRY_COUNT

\* The second turn of a send: its batch holds the same write without
\* content twice, as the first turn's did; the counter stands at the cap
\* and the last directive is the final notice.
C27_Witness ==
  /\ dPc = "returned"
  /\ dActions = <<Act("write", PathTxt, Undef), Act("write", PathTxt, Undef)>>
  /\ dTrace[2].skipped
  /\ actionRetryMap = <<[k |-> [type |-> "write", path |-> PathTxt], v |-> MAX_RETRY_COUNT]>>
  /\ LET instr == messages[Len(messages)].content.retryInstructions
     IN Len(instr) = 2 /\ instr[1].kind = "retry" /\ instr[2].kind = "final"

====
